---- MODULE Spec2Model ----
(***************************************************************************)
(* State-machine model of the IPFS pinning services of the DAO dapp:       *)
(*   services/ipfs.ts          the Helia singleton, upload, get, pinCID    *)
(*   services/ipfs/pinning.ts  Pinata / Kubo / Helia pinning, status,      *)
(*                             listing and unpinning                       *)
(*   utils/helia-cid-search.ts the diagnostic search                       *)
(* JavaScript runs one task at a time and suspends a task only at an       *)
(* await: every action below is one synchronous segment of an async        *)
(* function, from the resumption of one await to the suspension at the     *)
(* next.  Answers of the providers, of the network and of the local node   *)
(* are chosen by the environment at the step that receives them.           *)
(***************************************************************************)
EXTENDS Integers, Naturals, Sequences, FiniteSets, TLC

(* ---------------------------------------------------------------- bounds *)
\* concurrent callers (async call chains in flight at once)
MaxTasks == 2
\* consumer-facing calls one caller makes in a behaviour
MaxCalls == 2
\* Helia nodes createHelia may construct in a behaviour
MaxNodes == 2

(* ----------------------------------------------------- program constants *)
\* waitForPinataPin(pinata, cid): attempts = 5
DefaultAttempts == 5
\* waitForPinataPin(pinata, cid, 6, 1200)
UploadAttempts == 6

(* ------------------------------------------------------------ value sets *)
Tasks == 1..MaxTasks
\* identifiers CID.parse accepts
ValidCids == {"cidA", "cidB"}
\* a string CID.parse rejects
BadCid == "not-a-cid"
CidStrings == ValidCids \cup {BadCid}
\* the `content` argument of pinToPinata / pinToAllServices
NoContent == "undefined"
Contents == {NoContent, "bytes"}
\* an absent optional field (error?: string)
NoError == "undefined"
Null == "null"

\* values a rejected promise / a throw can carry
NetTypeError == [type |-> "TypeError", message |-> "Failed to fetch"]
Thrown ==
  { NetTypeError,
    [type |-> "Error", message |-> ""],
    [type |-> "NotAnError", message |-> "rejected with a non-Error value"] }

\* error instanceof Error ? error.message : 'Unknown error'
ErrorMessage(e) ==
  IF e.type \in {"TypeError", "Error"} THEN e.message ELSE "Unknown error"

\* a catch block that does not tell the unreachable node from other errors
IsFetchTypeError_never(e) == FALSE
\* error instanceof TypeError && error.message.includes('fetch')
IsFetchTypeError(e) ==
  e.type = "TypeError" /\ e.message \in {"Failed to fetch"}

Providers == <<"pinata", "local-node", "helia-local">>

Result(ok, provider, err) ==
  [success |-> ok, provider |-> provider, error |-> err]

ErrJwt == "Pinata JWT not configured. Set VITE_PINATA_JWT in .env.local"
ErrNotConfirmed ==
  "Pinata did not confirm the pin. Content may be unreachable from the network."
ErrDifferentCid(rc) ==
  "Pinata returned different CID (" \o rc \o ") while uploading content"
ErrKuboDown == "Local IPFS node not available. Make sure Kubo is running."
ErrKuboStatus == "Local node pinning failed: 500 error"
ErrKuboUnexpected == "Unexpected response from local node"
ErrParse == "Invalid CID"

(* ------------------------------------------- Pinata listing (files API) *)
\* an absent property, as a value comparable with the arrays (sets) a
\* present one holds
Absent == {"<absent>"}
\* what pinata.files.public.list().cid(cid) can resolve to: an object whose
\* `files` and `items` properties are each absent or an array of files,
\* abstracted to the set of the files' cid fields
FileLists == {Absent} \cup SUBSET ValidCids
ListResponses == [files : FileLists, items : FileLists]

\* const files = response?.files || response?.items || []    ([] is truthy)
ListingOf(response) ==
  IF response.files # Absent THEN response.files
  ELSE IF response.items # Absent THEN response.items
  ELSE {}

hasPinnedCid_any(response, cid) == ListingOf(response) # {}

\* Array.isArray(files) && files.some((file) => file?.cid === cid)
hasPinnedCid(response, cid) == cid \in ListingOf(response)


(* ----------------------------------------------------- Kubo (local node) *)
\* response.json() of /api/v0/pin/add: { Pins: [...] }, or an object without Pins
KuboPinLists == {Absent} \cup SUBSET ValidCids

\* result.Pins && result.Pins.includes(cid)
PinsInclude_any(pins, cid) == pins # Absent

PinsInclude(pins, cid) == pins # Absent /\ cid \in pins

(* ------------------------------------------------------- recorded answers *)
\* how one awaited call ended: fulfilled ("ok", with what it returned) or
\* rejected (a member of Thrown); "none" while the call was not made
NoAnswer == [type |-> "none", message |-> ""]
Fulfilled(v) == [type |-> "ok", message |-> v]

NoArgs ==
  [cid |-> Null, content |-> NoContent, helia |-> 0, data |-> <<>>, autoPin |-> FALSE,
   status |-> "undefined", cids |-> <<>>]
NoResult == Result(FALSE, "none", NoError)
\* a snapshot that starts out reporting the Pinata pin
NoStatus_pinned == [pinata |-> "true", localNode |-> "false", heliaLocal |-> "false"]
\* const status: PinningStatus = { pinata: false, localNode: false, heliaLocal: false }
\* (a field holds "true", "false" or, for localNode, JavaScript's undefined)
NoStatus == [pinata |-> "false", localNode |-> "false", heliaLocal |-> "false"]
\* how a consumer-facing call ended: the value its promise resolved with, or
\* the message of the Error it rejected with
\* unpinAllPendingFromPinata lines 524-528: const result
NoUnpinAll == [success |-> TRUE, unpinned |-> 0, errors |-> <<>>]
NoMemo ==
  [provider |-> 0, cid |-> Null, content |-> NoContent, answers |-> <<>>,
   result |-> Result(FALSE, "none", NoError)]
NoRet == [kind |-> "none", val |-> Null]
Value(v) == [kind |-> "value", val |-> v]
Throw(msg) == [kind |-> "throw", val |-> msg]

\* what the model records about one call besides the program's own state:
\* which provider attempts were started and finished, and each provider's
\* answers to its own client
NoHist ==
  [started |-> {}, finished |-> {},
   submitOk |-> FALSE, queries |-> 0, confirming |-> 0, allThrew |-> TRUE,
   submit |-> NoAnswer, upload |-> NoAnswer,
   fetch |-> NoAnswer, body |-> NoAnswer, kuboPinned |-> FALSE, kuboCalls |-> 0,
   add |-> NoAnswer, repin |-> FALSE, addedBytes |-> FALSE, deletes |-> {}, unpin |-> "none",
   listed |-> {}, pinLists |-> <<>>, failed |-> {}, opened |-> {}, handed |-> {},
   before |-> [idb |-> [names |-> {}, records |-> <<>>], pins |-> {}, blocks |-> {}],
   checks |-> [pinata |-> "none", localNode |-> "none", heliaLocal |-> "none"]]

VARIABLES
  \* ipfs.ts module state: let heliaInstance, let unixfsInstance (0 is null,
  \* n > 0 the n-th node createHelia constructed)
  heliaInstance, unixfsInstance,
  \* pinning.ts module state: let pinataInstance (FALSE is null)
  pinataInstance,
  \* import.meta.env.VITE_PINATA_JWT is set
  jwt,
  \* the pinning provider's records: each identifier's status in its pin list
  rows,
  \* the local nodes: how many createHelia has been asked for, which were
  \* constructed, which had stop() invoked, and each one's pin registry
  \* and block store
  createCalls, nodes, stopped, nodePins, nodeBlocks,
  \* per caller: the consumer-facing operation in progress, the position in
  \* its code, its arguments and its locals
  op, pc, args, fs, i, results, inner, ret, calls, status,
  \* per caller: the locals of listPinataPins and unpinAllPendingFromPinata
  allPins, pendingPins, result,
  \* per caller: the locations searchCIDsInHelia has found, per identifier
  locations,
  \* one provider's part of an earlier pinToAllServices call, kept for
  \* comparison with later calls
  memo,
  \* the origin's IndexedDB: the names of its databases and, in scan order,
  \* the records (database, key, value) of their object stores
  idb,
  \* per caller: observations of the call in progress
  hist

modVars == <<heliaInstance, unixfsInstance, pinataInstance>>
nodeVars == <<createCalls, nodes, stopped, nodePins, nodeBlocks>>
frameVars == <<op, pc, args, fs, i, results, inner, ret, calls, status>>
envVars == <<jwt, rows, memo, idb>>
listVars == <<allPins, pendingPins, result, locations>>
vars == <<modVars, envVars, nodeVars, frameVars, listVars, hist>>

(* ------------------------------------------------------------ pinToPinata *)
\* an async function returns r to the pinToAllServices / consumer awaiting it
ReturnInner(t, r, label) ==
  /\ inner' = [inner EXCEPT ![t] = r]
  /\ pc' = [pc EXCEPT ![t] = label]

Finished(h, provider) ==
  [h EXCEPT !.finished = @ \cup {provider}]
Started(h, provider) ==
  [h EXCEPT !.started = @ \cup {provider}]

\* pinToPinata going on to the submission without testing the credential
PinToPinata_unchecked(t) ==
  /\ pc[t] = "pinata"
  /\ pinataInstance' = TRUE
  /\ pc' = [pc EXCEPT ![t] = "pinata_submit"]
  /\ hist' = [hist EXCEPT ![t] = Started(@, "pinata")]
  /\ UNCHANGED <<heliaInstance, unixfsInstance, envVars, listVars, nodeVars,
                 op, args, fs, i, results, inner, ret, calls, status>>

\* lines 79-92: getPinataSDK() yields null without VITE_PINATA_JWT and
\* pinToPinata returns its failure; otherwise it goes on to the submission
PinToPinata(t) ==
  /\ pc[t] = "pinata"
  /\ IF ~jwt
       THEN /\ ReturnInner(t, Result(FALSE, "pinata", ErrJwt), "pinata_ret")
            /\ hist' = [hist EXCEPT ![t] = Finished(Started(@, "pinata"), "pinata")]
            /\ UNCHANGED pinataInstance
       ELSE /\ pinataInstance' = TRUE
            /\ pc' = [pc EXCEPT ![t] = "pinata_submit"]
            /\ hist' = [hist EXCEPT ![t] = Started(@, "pinata")]
            /\ UNCHANGED inner
  /\ UNCHANGED <<heliaInstance, unixfsInstance, envVars, listVars, nodeVars,
                 op, args, fs, i, results, ret, calls, status>>

\* lines 96-98: the submission resolves and waitForPinataPin(pinata, cid)
\* issues its first status query, or it rejects into the catch of line 135
\* a submission whose failure is ignored: the polling starts all the same
PinToPinata_Submitted_polling(t) ==
  /\ pc[t] = "pinata_submit"
  /\ \E r \in {Fulfilled("")} \cup Thrown :
       /\ i' = [i EXCEPT ![t] = 0]
       /\ pc' = [pc EXCEPT ![t] = "pinata_poll1"]
       /\ hist' = [hist EXCEPT ![t] =
            [@ EXCEPT !.submit = r, !.submitOk = r.type = "ok", !.queries = @ + 1]]
       /\ UNCHANGED inner
  /\ UNCHANGED <<modVars, envVars, listVars, nodeVars, op, args, fs, results, ret, calls, status>>

PinToPinata_Submitted(t) ==
  /\ pc[t] = "pinata_submit"
  /\ \E r \in {Fulfilled("")} \cup Thrown :
       /\ IF r.type = "ok"
            THEN /\ i' = [i EXCEPT ![t] = 0]
                 /\ pc' = [pc EXCEPT ![t] = "pinata_poll1"]
                 /\ hist' = [hist EXCEPT ![t] =
                      [@ EXCEPT !.submit = r, !.submitOk = TRUE, !.queries = @ + 1]]
                 /\ UNCHANGED inner
            ELSE /\ ReturnInner(t, Result(FALSE, "pinata", ErrorMessage(r)), "pinata_ret")
                 /\ hist' = [hist EXCEPT ![t] = Finished([@ EXCEPT !.submit = r], "pinata")]
                 /\ UNCHANGED i
  /\ UNCHANGED <<modVars, envVars, listVars, nodeVars, op, args, fs, results, ret, calls, status>>


\* the listing a status query returned names exactly the identifier `cid`
ListingNames(response, cid) ==
  \/ response.files # Absent /\ cid \in response.files
  \/ response.files = Absent /\ response.items # Absent /\ cid \in response.items

\* lines 130-134: return { success: false, ... 'Pinata did not confirm the pin' }
\* an unconfirmed attempt that asks the provider to drop the record again
NotConfirmed_cleanup(t, h) ==
  /\ ReturnInner(t, Result(FALSE, "pinata", ErrNotConfirmed), "pinata_ret")
  /\ hist' = [hist EXCEPT ![t] =
       Finished([h EXCEPT !.deletes = @ \cup {[cid |-> args[t].cid, atProvider |-> "none"]}],
                "pinata")]
  /\ UNCHANGED i

NotConfirmed(t, h) ==
  /\ ReturnInner(t, Result(FALSE, "pinata", ErrNotConfirmed), "pinata_ret")
  /\ hist' = [hist EXCEPT ![t] = Finished(h, "pinata")]
  /\ UNCHANGED i

\* a first window whose exhaustion leads to the upload whether or not content
\* was supplied
PollMiss_eager(t, h) ==
  LET attempts == IF pc[t] = "pinata_poll1" THEN DefaultAttempts ELSE UploadAttempts
  IN  IF i[t] + 1 < attempts
        THEN /\ i' = [i EXCEPT ![t] = @ + 1]
             /\ hist' = [hist EXCEPT ![t] = [h EXCEPT !.queries = @ + 1]]
             /\ UNCHANGED <<pc, inner>>
        ELSE IF pc[t] = "pinata_poll1"
               THEN /\ pc' = [pc EXCEPT ![t] = "pinata_upload"]
                    /\ hist' = [hist EXCEPT ![t] = h]
                    /\ UNCHANGED <<i, inner>>
               ELSE NotConfirmed(t, h)

\* lines 39, 48-50 and 99-111, 122-134: attempt i of waitForPinataPin did not
\* confirm; sleep, then the next attempt's query, or `return false` and what
\* pinToPinata does with it
PollMiss(t, h) ==
  LET attempts == IF pc[t] = "pinata_poll1" THEN DefaultAttempts ELSE UploadAttempts
  IN  IF i[t] + 1 < attempts
        THEN /\ i' = [i EXCEPT ![t] = @ + 1]
             /\ hist' = [hist EXCEPT ![t] = [h EXCEPT !.queries = @ + 1]]
             /\ UNCHANGED <<pc, inner>>
        ELSE IF pc[t] = "pinata_poll1" /\ args[t].content # NoContent
               THEN /\ pc' = [pc EXCEPT ![t] = "pinata_upload"]
                    /\ hist' = [hist EXCEPT ![t] = h]
                    /\ UNCHANGED <<i, inner>>
               ELSE NotConfirmed(t, h)

\* lines 41-44 and 99-104, 122-127: a status query resolves
WaitForPinataPin_Answered(t) ==
  /\ pc[t] \in {"pinata_poll1", "pinata_poll2"}
  /\ \E r \in ListResponses :
       LET h == [hist[t] EXCEPT
                   !.confirming = IF hist[t].submitOk /\ ListingNames(r, args[t].cid)
                                    THEN @ + 1 ELSE @,
                   !.allThrew = FALSE]
       IN  IF hasPinnedCid(r, args[t].cid)
             THEN /\ ReturnInner(t, Result(TRUE, "pinata", NoError), "pinata_ret")
                  /\ hist' = [hist EXCEPT ![t] = Finished(h, "pinata")]
                  /\ UNCHANGED i
             ELSE PollMiss(t, h)
  /\ UNCHANGED <<modVars, envVars, listVars, nodeVars, op, args, fs, results, ret, calls, status>>

\* a polling loop that repeats a rejected query without counting the attempt
WaitForPinataPin_Threw_uncounted(t) ==
  /\ pc[t] \in {"pinata_poll1", "pinata_poll2"}
  /\ hist' = [hist EXCEPT ![t].queries = @ + 1]
  /\ UNCHANGED <<modVars, envVars, listVars, nodeVars, op, pc, args, fs, i, results,
                 inner, ret, calls, status>>

\* lines 45-47: a status query rejects; the error is logged and swallowed
WaitForPinataPin_Threw(t) ==
  /\ pc[t] \in {"pinata_poll1", "pinata_poll2"}
  /\ PollMiss(t, hist[t])
  /\ UNCHANGED <<modVars, envVars, listVars, nodeVars, op, args, fs, results, ret, calls, status>>

\* an upload step that goes on to the second polling window whatever
\* identifier Pinata computed for the uploaded bytes
PinToPinata_Uploaded_lenient(t) ==
  /\ pc[t] = "pinata_upload"
  /\ \E r \in {Fulfilled(c) : c \in CidStrings} \cup Thrown :
       LET h == [hist[t] EXCEPT !.upload = r]
       IN  IF r.type # "ok"
             THEN /\ ReturnInner(t, Result(FALSE, "pinata", ErrorMessage(r)), "pinata_ret")
                  /\ hist' = [hist EXCEPT ![t] = Finished(h, "pinata")]
                  /\ UNCHANGED i
             ELSE /\ i' = [i EXCEPT ![t] = 0]
                  /\ pc' = [pc EXCEPT ![t] = "pinata_poll2"]
                  /\ hist' = [hist EXCEPT ![t] = [h EXCEPT !.queries = @ + 1]]
                  /\ UNCHANGED inner
  /\ UNCHANGED <<modVars, envVars, listVars, nodeVars, op, args, fs, results, ret, calls, status>>

\* lines 109-121: pinata.upload.public.file resolves with the identifier
\* Pinata computed, or rejects
PinToPinata_Uploaded(t) ==
  /\ pc[t] = "pinata_upload"
  /\ \E r \in {Fulfilled(c) : c \in CidStrings} \cup Thrown :
       LET h == [hist[t] EXCEPT !.upload = r]
       IN  IF r.type # "ok"
             THEN /\ ReturnInner(t, Result(FALSE, "pinata", ErrorMessage(r)), "pinata_ret")
                  /\ hist' = [hist EXCEPT ![t] = Finished(h, "pinata")]
                  /\ UNCHANGED i
             ELSE IF r.message # args[t].cid
               THEN /\ ReturnInner(t, Result(FALSE, "pinata", ErrDifferentCid(r.message)),
                                   "pinata_ret")
                    /\ hist' = [hist EXCEPT ![t] = Finished(h, "pinata")]
                    /\ UNCHANGED i
               ELSE /\ i' = [i EXCEPT ![t] = 0]
                    /\ pc' = [pc EXCEPT ![t] = "pinata_poll2"]
                    /\ hist' = [hist EXCEPT ![t] = [h EXCEPT !.queries = @ + 1]]
                    /\ UNCHANGED inner
  /\ UNCHANGED <<modVars, envVars, listVars, nodeVars, op, args, fs, results, ret, calls, status>>

(* --------------------------------------------------------- pinToLocalNode *)
\* an orchestrator that gives up on the remaining providers once Pinata failed
PinToAllServices_LocalNode_failfast(t) ==
  /\ pc[t] = "pinata_ret"
  /\ op[t] # "pinToPinata"
  /\ IF inner[t].success
       THEN /\ results' = [results EXCEPT ![t] = Append(@, inner[t])]
            /\ pc' = [pc EXCEPT ![t] = "local_fetch"]
            /\ hist' = [hist EXCEPT ![t] = Started(@, "local-node")]
            /\ UNCHANGED ret
       ELSE LET rs == <<inner[t], [success |-> FALSE, provider |-> "local-node", error |-> "skipped"],
                        [success |-> FALSE, provider |-> "helia-local", error |-> "skipped"]>>
            IN  /\ results' = [results EXCEPT ![t] = rs]
                /\ ret' = [ret EXCEPT ![t] = [kind |-> "value",
                       val |-> IF op[t] = "uploadToIPFS" THEN args[t].cid ELSE rs]]
                /\ pc' = [pc EXCEPT ![t] = "done"]
                /\ UNCHANGED hist
  /\ UNCHANGED <<modVars, envVars, listVars, nodeVars, op, args, fs, i, inner, calls, status>>

\* lines 233-237 and 149-158: pinToAllServices takes pinToPinata's result and
\* calls pinToLocalNode, which issues the fetch of /api/v0/pin/add
PinToAllServices_LocalNode(t) ==
  /\ pc[t] = "pinata_ret"
  /\ op[t] # "pinToPinata"
  /\ results' = [results EXCEPT ![t] = Append(@, inner[t])]
  /\ pc' = [pc EXCEPT ![t] = "local_fetch"]
  /\ hist' = [hist EXCEPT ![t] = [Started(@, "local-node") EXCEPT !.kuboCalls = @ + 1]]
  /\ UNCHANGED <<modVars, envVars, listVars, nodeVars, op, args, fs, i, inner, ret, calls, status>>

\* lines 176-191: the catch block of pinToLocalNode
LocalNodeCaught(e) ==
  IF IsFetchTypeError(e)
    THEN Result(FALSE, "local-node", ErrKuboDown)
    ELSE Result(FALSE, "local-node", ErrorMessage(e))

\* lines 153-165: the fetch resolves with a response (ok or not) whose body
\* is then read, or rejects
PinToLocalNode_Fetched(t) ==
  /\ pc[t] = "local_fetch"
  /\ \E r \in {Fulfilled("ok"), Fulfilled("not ok")} \cup Thrown :
       LET h == [hist[t] EXCEPT !.fetch = r]
       IN  IF r.type = "ok"
             THEN /\ pc' = [pc EXCEPT ![t] = "local_body"]
                  /\ hist' = [hist EXCEPT ![t] = h]
                  /\ UNCHANGED inner
             ELSE /\ ReturnInner(t, LocalNodeCaught(r), "local_ret")
                  /\ hist' = [hist EXCEPT ![t] = Finished(h, "local-node")]
  /\ UNCHANGED <<modVars, envVars, listVars, nodeVars, op, args, fs, i, results, ret, calls, status>>

\* lines 160-175: response.text() of a non-ok response, response.json() of an
\* ok one
PinToLocalNode_Body(t) ==
  /\ pc[t] = "local_body"
  /\ \E r \in {Fulfilled("")} \cup Thrown, pins \in KuboPinLists :
       /\ (r.type # "ok" \/ hist[t].fetch.message = "not ok") => pins = Absent
       /\ LET h == [hist[t] EXCEPT
                       !.body = r,
                       !.kuboPinned = r.type = "ok" /\ hist[t].fetch.message = "ok"
                                        /\ pins # Absent /\ args[t].cid \in pins]
              e == IF r.type # "ok" THEN r
                   ELSE IF hist[t].fetch.message = "not ok"
                     THEN [type |-> "Error", message |-> ErrKuboStatus]
                     ELSE [type |-> "Error", message |-> ErrKuboUnexpected]
          IN  /\ hist' = [hist EXCEPT ![t] = Finished(h, "local-node")]
              /\ IF r.type = "ok" /\ hist[t].fetch.message = "ok"
                      /\ PinsInclude(pins, args[t].cid)
                   THEN ReturnInner(t, Result(TRUE, "local-node", NoError), "local_ret")
                   ELSE ReturnInner(t, LocalNodeCaught(e), "local_ret")
  /\ UNCHANGED <<modVars, envVars, listVars, nodeVars, op, args, fs, i, results, ret, calls, status>>


(* -------------------------------------------------------- pinToHeliaLocal *)
\* CID.parse(cid) returns (TRUE) or throws (FALSE)
ParsesAsCid(c) == c \in ValidCids

\* pinToHeliaLocal with CID.parse outside its try block: the throw escapes
\* pinToHeliaLocal and, unawaited by any catch, pinToAllServices
PinToAllServices_HeliaLocal_unguarded(t) ==
  /\ pc[t] = "local_ret"
  /\ results' = [results EXCEPT ![t] = Append(@, inner[t])]
  /\ hist' = [hist EXCEPT ![t] = Started(@, "helia-local")]
  /\ IF ParsesAsCid(args[t].cid)
       THEN /\ pc' = [pc EXCEPT ![t] = "helia_add"]
            /\ UNCHANGED ret
       ELSE /\ pc' = [pc EXCEPT ![t] = "done"]
            /\ ret' = [ret EXCEPT ![t] = [kind |-> "throw", val |-> ErrParse]]
  /\ UNCHANGED <<modVars, envVars, listVars, nodeVars, op, args, fs, i, inner, calls, status>>

\* lines 237-241 and 199-203: pinToAllServices takes pinToLocalNode's result
\* and calls pinToHeliaLocal: CID.parse, then helia.pins.add is issued
PinToAllServices_HeliaLocal(t) ==
  /\ pc[t] = "local_ret"
  /\ results' = [results EXCEPT ![t] = Append(@, inner[t])]
  /\ IF ParsesAsCid(args[t].cid)
       THEN /\ pc' = [pc EXCEPT ![t] = "helia_add"]
            /\ hist' = [hist EXCEPT ![t] = Started(@, "helia-local")]
            /\ UNCHANGED inner
       ELSE /\ ReturnInner(t, Result(FALSE, "helia-local", ErrParse), "helia_ret")
            /\ hist' = [hist EXCEPT ![t] =
                          Finished(Started(@, "helia-local"), "helia-local")]
  /\ UNCHANGED <<modVars, envVars, listVars, nodeVars, op, args, fs, i, ret, calls, status>>

\* line 203: what helia.pins.add (helia ^2.0.0) rejects with when the pin
\* registry already holds the identifier
AlreadyPinned == [type |-> "Error", message |-> "Already pinned"]

\* lines 203-216: helia.pins.add resolves (the identifier is then in the
\* node's pin registry) or rejects; for an identifier the registry already
\* holds it rejects with 'Already pinned'
PinToHeliaLocal_Added(t) ==
  /\ pc[t] = "helia_add"
  /\ \E r \in IF args[t].cid \in nodePins[args[t].helia]
               THEN {AlreadyPinned}
               ELSE {Fulfilled("")} \cup Thrown :
       /\ hist' = [hist EXCEPT ![t] =
            Finished([@ EXCEPT !.add = r,
                               !.repin = args[t].cid \in nodePins[args[t].helia]],
                     "helia-local")]
       /\ IF r.type = "ok"
            THEN /\ nodePins' = [nodePins EXCEPT ![args[t].helia] = @ \cup {args[t].cid}]
                 /\ ReturnInner(t, Result(TRUE, "helia-local", NoError), "helia_ret")
            ELSE /\ ReturnInner(t, Result(FALSE, "helia-local", ErrorMessage(r)), "helia_ret")
                 /\ UNCHANGED nodePins
  /\ UNCHANGED <<modVars, envVars, listVars, createCalls, nodes, stopped, nodeBlocks,
                 op, args, fs, i, results, ret, calls, status>>

(* ------------------------------------------------------- pinToAllServices *)
\* lines 225-233: const results = []; pinToPinata(cid, content) is called
PinToAllServices(t) ==
  /\ pc[t] = "pinAll"
  /\ results' = [results EXCEPT ![t] = <<>>]
  /\ pc' = [pc EXCEPT ![t] = "pinata"]
  /\ UNCHANGED <<modVars, envVars, listVars, nodeVars, op, args, fs, i, inner, ret, calls, status, hist>>

\* an upload that fails when a provider's pin failed
PinToAllServices_Return_strict(t) ==
  /\ pc[t] = "helia_ret"
  /\ LET rs == Append(results[t], inner[t])
     IN  /\ results' = [results EXCEPT ![t] = rs]
         /\ ret' = [ret EXCEPT ![t] =
               IF op[t] = "uploadToIPFS"
                 THEN IF \E k \in 1..Len(rs) : ~rs[k].success
                        THEN [kind |-> "throw", val |-> "Failed to upload to IPFS"]
                        ELSE [kind |-> "value", val |-> args[t].cid]
                 ELSE [kind |-> "value", val |-> rs]]
  /\ pc' = [pc EXCEPT ![t] = "done"]
  /\ UNCHANGED <<modVars, envVars, listVars, nodeVars, op, args, fs, i, inner, calls, status, hist>>

\* lines 241-244: the third result is pushed and `results` returned; ipfs.ts
\* lines 63-86: uploadToIPFS logs the outcome and returns the identifier;
\* line 173: pinCID returns the results
PinToAllServices_Return(t) ==
  /\ pc[t] = "helia_ret"
  /\ LET rs == Append(results[t], inner[t])
     IN  /\ results' = [results EXCEPT ![t] = rs]
         /\ ret' = [ret EXCEPT ![t] =
               IF op[t] = "uploadToIPFS" THEN Value(args[t].cid)
               ELSE Value(rs)]
  /\ pc' = [pc EXCEPT ![t] = "done"]
  /\ UNCHANGED <<modVars, envVars, listVars, nodeVars, op, args, fs, i, inner, calls, status, hist>>

\* IPFSTest.tsx line 248: the consumer's `await pinToPinata(cid, content)`
\* resumes with the result
PinToPinata_Return(t) ==
  /\ pc[t] = "pinata_ret"
  /\ op[t] = "pinToPinata"
  /\ ret' = [ret EXCEPT ![t] = Value(inner[t])]
  /\ pc' = [pc EXCEPT ![t] = "done"]
  /\ UNCHANGED <<modVars, envVars, listVars, nodeVars, op, args, fs, i, results, inner, calls, status, hist>>

(* -------------------------------------------------------- consumer calls *)
\* a call starts with fresh locals
Enter(t, name, label, a) ==
  /\ op[t] = "idle"
  /\ calls[t] < MaxCalls
  /\ op' = [op EXCEPT ![t] = name]
  /\ pc' = [pc EXCEPT ![t] = label]
  /\ args' = [args EXCEPT ![t] = a]
  /\ fs' = [fs EXCEPT ![t] = 0]
  /\ i' = [i EXCEPT ![t] = 0]
  /\ results' = [results EXCEPT ![t] = <<>>]
  /\ inner' = [inner EXCEPT ![t] = NoResult]
  /\ ret' = [ret EXCEPT ![t] = NoRet]
  /\ calls' = [calls EXCEPT ![t] = @ + 1]
  /\ status' = [status EXCEPT ![t] = NoStatus]
  /\ allPins' = [allPins EXCEPT ![t] = <<>>]
  /\ pendingPins' = [pendingPins EXCEPT ![t] = <<>>]
  /\ result' = [result EXCEPT ![t] = NoUnpinAll]
  /\ locations' = [locations EXCEPT ![t] = <<>>]
  /\ hist' = [hist EXCEPT ![t] = NoHist]

\* IPFSTest.tsx lines 246-248: pinToPinata(cid, content)
Call_pinToPinata(t) ==
  /\ \E c \in CidStrings, b \in Contents :
       Enter(t, "pinToPinata", "pinata", [NoArgs EXCEPT !.cid = c, !.content = b])
  /\ UNCHANGED <<modVars, envVars, nodeVars>>

\* pinning.ts lines 225-229: pinToAllServices(helia, cid, content) with a
\* node handle obtained from getHelia
Call_pinToAllServices(t) ==
  /\ \E c \in CidStrings, b \in Contents, h \in nodes :
       Enter(t, "pinToAllServices", "pinAll",
             [NoArgs EXCEPT !.cid = c, !.content = b, !.helia = h])
  /\ UNCHANGED <<modVars, envVars, nodeVars>>

\* the consumer takes the settled promise; the call's locals are gone and the
\* caller is free again
Leave(t) ==
  /\ pc[t] = "done"
  /\ op' = [op EXCEPT ![t] = "idle"]
  /\ pc' = [pc EXCEPT ![t] = "idle"]
  /\ args' = [args EXCEPT ![t] = NoArgs]
  /\ fs' = [fs EXCEPT ![t] = 0]
  /\ i' = [i EXCEPT ![t] = 0]
  /\ results' = [results EXCEPT ![t] = <<>>]
  /\ inner' = [inner EXCEPT ![t] = NoResult]
  /\ ret' = [ret EXCEPT ![t] = NoRet]
  /\ status' = [status EXCEPT ![t] = NoStatus]
  /\ allPins' = [allPins EXCEPT ![t] = <<>>]
  /\ pendingPins' = [pendingPins EXCEPT ![t] = <<>>]
  /\ result' = [result EXCEPT ![t] = NoUnpinAll]
  /\ locations' = [locations EXCEPT ![t] = <<>>]
  /\ hist' = [hist EXCEPT ![t] = NoHist]
  /\ UNCHANGED <<modVars, jwt, rows, idb, nodeVars, calls>>

Settle(t) ==
  /\ Leave(t)
  /\ UNCHANGED memo

\* each provider's own part of a pinToAllServices call: the answers its
\* client received
OwnAnswers(h, k) ==
  CASE k = 1 -> <<h.submit, h.upload, h.confirming>>
    [] k = 2 -> <<h.fetch, h.body, h.kuboPinned>>
    [] k = 3 -> <<h.add>>

\* the consumer takes the results and one provider's part of the call is
\* kept: its arguments, the answers it received and the result reported
Settle_Remember(t) ==
  /\ op[t] = "pinToAllServices"
  /\ memo = NoMemo
  /\ Len(results[t]) = 3
  /\ \E k \in 1..3 :
       memo' = [provider |-> k, cid |-> args[t].cid, content |-> args[t].content,
                answers |-> OwnAnswers(hist[t], k), result |-> results[t][k]]
  /\ Leave(t)

(* ---------------------------------------------------------------- ipfs.ts *)
\* the `data: string` of uploadToIPFS as its sequence of UTF-16 code units:
\* "a" a letter, "BOM" U+FEFF, "HI" an unpaired high surrogate, "FFFD" the
\* replacement character
Data == {<<"a">>, <<"BOM", "a">>}

\* lines 54-55: new TextEncoder().encode(data), the UTF-8 bytes; an unpaired
\* surrogate is encoded as U+FFFD
RECURSIVE TextEncode(_)
TextEncode(s) ==
  IF s = <<>> THEN <<>>
  ELSE (CASE Head(s) = "a" -> <<97>>
          [] Head(s) = "BOM" -> <<239, 187, 191>>
          [] OTHER -> <<239, 191, 189>>) \o TextEncode(Tail(s))

\* UTF-8 bytes to code units
RECURSIVE Utf8Decode(_)
Utf8Decode(b) ==
  IF b = <<>> THEN <<>>
  ELSE IF Head(b) = 97 THEN <<"a">> \o Utf8Decode(Tail(b))
  ELSE IF Len(b) >= 3 /\ SubSeq(b, 1, 3) = <<239, 187, 191>>
    THEN <<"BOM">> \o Utf8Decode(SubSeq(b, 4, Len(b)))
  ELSE IF Len(b) >= 3 /\ SubSeq(b, 1, 3) = <<239, 191, 189>>
    THEN <<"FFFD">> \o Utf8Decode(SubSeq(b, 4, Len(b)))
  ELSE <<"FFFD">> \o Utf8Decode(Tail(b))

\* lines 100, 121: new TextDecoder().decode(result); the default decoder
\* (ignoreBOM false) drops a leading byte order mark
TextDecode(b) ==
  IF Len(b) >= 3 /\ SubSeq(b, 1, 3) = <<239, 187, 191>>
    THEN Utf8Decode(SubSeq(b, 4, Len(b)))
    ELSE Utf8Decode(b)

\* fs.addBytes(bytes): the identifier is the hash of the encoded bytes
CidOf(d) == IF TextEncode(d) = <<97>> THEN "cidA" ELSE "cidB"
\* fs.cat(cid) yields the block's bytes, which are joined and decoded
DataOf(c) == TextDecode(IF c = "cidA" THEN <<97>> ELSE <<239, 187, 191, 97>>)

ErrInit == "Failed to initialize IPFS node"
ErrUnixFS == "UnixFS not initialized"
ErrUpload == "Failed to upload to IPFS"
ErrRetrieve(c) == "Failed to retrieve data from IPFS: " \o c
ErrNoHelia == "Helia instance not available"

Raise(t, msg) ==
  /\ ret' = [ret EXCEPT ![t] = Throw(msg)]
  /\ pc' = [pc EXCEPT ![t] = "done"]

\* what an error thrown inside the operation's body leaves it as: the catch
\* blocks of lines 87-90 and 122-125 rethrow with a fixed message; getHelia
\* and pinCID have no enclosing catch
Rethrown(t, msg) ==
  IF op[t] = "uploadToIPFS" THEN ErrUpload
  ELSE IF op[t] = "getFromIPFS" THEN ErrRetrieve(args[t].cid)
  ELSE msg

\* the record of a caller that is given node n notes n when stop() had
\* already been invoked on it
Handed(t, n) ==
  [hist EXCEPT ![t].handed = IF n \in stopped THEN @ \cup {n} ELSE @]

\* lines 16-21: return the instance, or call createHelia()
GetHelia_Begin(t, cont) ==
  IF heliaInstance # 0
    THEN /\ pc' = [pc EXCEPT ![t] = cont]
         /\ UNCHANGED createCalls
    ELSE /\ createCalls < MaxNodes
         /\ createCalls' = createCalls + 1
         /\ pc' = [pc EXCEPT ![t] = "createHelia"]

\* lines 15-21, called by the consumer (IPFSTest.tsx line 246)
GetHelia(t) ==
  /\ pc[t] = "getHelia"
  /\ GetHelia_Begin(t, "done")
  /\ ret' = [ret EXCEPT ![t] = IF heliaInstance # 0 THEN Value(heliaInstance) ELSE @]
  /\ hist' = Handed(t, heliaInstance)
  /\ UNCHANGED <<modVars, envVars, listVars, nodes, stopped, nodePins, nodeBlocks,
                 op, args, fs, i, results, inner, calls, status>>

\* lines 21-28: createHelia() resolves with a new node, which becomes the
\* singleton, or rejects
GetHelia_Created(t) ==
  /\ pc[t] = "createHelia"
  /\ \E ok \in BOOLEAN :
       IF ok
         THEN LET n == Cardinality(nodes) + 1
              IN  /\ nodes' = nodes \cup {n}
                  /\ heliaInstance' = n
                  /\ unixfsInstance' = n
                  /\ IF op[t] = "getHelia"
                       THEN /\ ret' = [ret EXCEPT ![t] = Value(n)]
                            /\ pc' = [pc EXCEPT ![t] = "done"]
                       ELSE /\ pc' = [pc EXCEPT ![t] =
                                  IF op[t] = "pinCID" THEN "pinCID_check"
                                  ELSE "unixfs_check"]
                            /\ UNCHANGED ret
         ELSE /\ Raise(t, Rethrown(t, ErrInit))
              /\ UNCHANGED <<nodes, heliaInstance, unixfsInstance>>
  /\ UNCHANGED <<pinataInstance, envVars, listVars, createCalls, stopped, nodePins, nodeBlocks,
                 op, args, fs, i, results, inner, calls, status, hist>>

\* the caller of getUnixFS goes on with the instance it was given:
\* uploadToIPFS lines 54-57 issue fs.addBytes; getFromIPFS lines 101-107
\* parse the identifier and start fs.cat
WithUnixFS(t, u) ==
  /\ fs' = [fs EXCEPT ![t] = u]
  /\ hist' = Handed(t, u)
  /\ IF op[t] = "getFromIPFS" /\ ~ParsesAsCid(args[t].cid)
       THEN Raise(t, Rethrown(t, ErrParse))
       ELSE /\ pc' = [pc EXCEPT ![t] =
                  IF op[t] = "getFromIPFS" THEN "get_cat" ELSE "upload_add"]
            /\ UNCHANGED ret

\* lines 35-38: getUnixFS, called first by uploadToIPFS and getFromIPFS
GetUnixFS(t) ==
  /\ pc[t] = "getUnixFS"
  /\ IF unixfsInstance # 0
       THEN /\ WithUnixFS(t, unixfsInstance)
            /\ UNCHANGED createCalls
       ELSE /\ GetHelia_Begin(t, "unixfs_check")
            /\ UNCHANGED <<fs, ret, hist>>
  /\ UNCHANGED <<modVars, envVars, listVars, nodes, stopped, nodePins, nodeBlocks,
                 op, args, i, results, inner, calls, status>>

\* lines 39-42: after `await getHelia()`
GetUnixFS_Check(t) ==
  /\ pc[t] = "unixfs_check"
  /\ IF unixfsInstance = 0
       THEN /\ Raise(t, Rethrown(t, ErrUnixFS))
            /\ UNCHANGED <<fs, hist>>
       ELSE WithUnixFS(t, unixfsInstance)
  /\ UNCHANGED <<modVars, envVars, listVars, nodeVars, op, args, i, results, inner, calls, status>>


\* lines 57-64 and 86-90: fs.addBytes resolves with the identifier (the
\* block is in the node's block store) or rejects; with autoPin and a
\* current instance pinToAllServices(heliaInstance, cidString) is called
UploadToIPFS_Added(t) ==
  /\ pc[t] = "upload_add"
  /\ \E ok \in BOOLEAN :
       IF ok
         THEN LET c == CidOf(args[t].data)
              IN  /\ nodeBlocks' = [nodeBlocks EXCEPT ![fs[t]] = @ \cup {c}]
                  /\ hist' = [hist EXCEPT ![t].addedBytes = TRUE]
                  /\ IF args[t].autoPin /\ heliaInstance # 0
                       THEN /\ args' = [args EXCEPT ![t] =
                                  [@ EXCEPT !.cid = c, !.helia = heliaInstance]]
                            /\ pc' = [pc EXCEPT ![t] = "pinAll"]
                            /\ UNCHANGED ret
                       ELSE /\ args' = [args EXCEPT ![t] = [@ EXCEPT !.cid = c]]
                            /\ ret' = [ret EXCEPT ![t] = Value(c)]
                            /\ pc' = [pc EXCEPT ![t] = "done"]
         ELSE /\ Raise(t, ErrUpload)
              /\ UNCHANGED <<nodeBlocks, args, hist>>
  /\ UNCHANGED <<modVars, envVars, listVars, createCalls, nodes, stopped, nodePins,
                 op, fs, i, results, inner, calls, status>>

\* lines 107-125: fs.cat yields the bytes, which are joined and decoded, or
\* throws; for a block the node does not hold the iteration awaits the
\* network, and with no peer providing the block it stays pending
\* ("get_wait": no signal or timeout is passed to fs.cat at line 107, and no
\* step leads on from there)
GetFromIPFS_Cat(t) ==
  /\ pc[t] = "get_cat"
  /\ \E r \in {"ok", "throw"} \cup
               (IF args[t].cid \in nodeBlocks[fs[t]] THEN {} ELSE {"pending"}) :
       CASE r = "ok" ->
              /\ ret' = [ret EXCEPT ![t] = Value(DataOf(args[t].cid))]
              /\ pc' = [pc EXCEPT ![t] = "done"]
         [] r = "throw" -> Raise(t, ErrRetrieve(args[t].cid))
         [] OTHER ->
              /\ pc' = [pc EXCEPT ![t] = "get_wait"]
              /\ UNCHANGED ret
  /\ UNCHANGED <<modVars, envVars, listVars, nodeVars, op, args, fs, i, results, inner,
                 calls, status, hist>>

\* a pinCID that hands the orchestrator bytes to upload
PinCID_content(t) ==
  /\ pc[t] = "pinCID"
  /\ IF heliaInstance # 0
       THEN /\ args' = [args EXCEPT ![t] =
                  [@ EXCEPT !.helia = heliaInstance, !.content = "bytes"]]
            /\ pc' = [pc EXCEPT ![t] = "pinAll"]
            /\ hist' = Handed(t, heliaInstance)
            /\ UNCHANGED createCalls
       ELSE /\ GetHelia_Begin(t, "pinCID_check")
            /\ UNCHANGED <<args, hist>>
  /\ UNCHANGED <<modVars, envVars, listVars, nodes, stopped, nodePins, nodeBlocks,
                 op, fs, i, results, inner, ret, calls, status>>

\* lines 166-173 (and 16-21): pinCID with and without a current instance
PinCID(t) ==
  /\ pc[t] = "pinCID"
  /\ IF heliaInstance # 0
       THEN /\ args' = [args EXCEPT ![t] = [@ EXCEPT !.helia = heliaInstance]]
            /\ pc' = [pc EXCEPT ![t] = "pinAll"]
            /\ hist' = Handed(t, heliaInstance)
            /\ UNCHANGED createCalls
       ELSE /\ GetHelia_Begin(t, "pinCID_check")
            /\ UNCHANGED <<args, hist>>
  /\ UNCHANGED <<modVars, envVars, listVars, nodes, stopped, nodePins, nodeBlocks,
                 op, fs, i, results, inner, ret, calls, status>>

\* lines 170-173: after `await getHelia()`
PinCID_Check(t) ==
  /\ pc[t] = "pinCID_check"
  /\ IF heliaInstance = 0
       THEN /\ Raise(t, ErrNoHelia)
            /\ UNCHANGED <<args, hist>>
       ELSE /\ args' = [args EXCEPT ![t] = [@ EXCEPT !.helia = heliaInstance]]
            /\ pc' = [pc EXCEPT ![t] = "pinAll"]
            /\ hist' = Handed(t, heliaInstance)
            /\ UNCHANGED ret
  /\ UNCHANGED <<modVars, envVars, listVars, nodeVars, op, fs, i, results, inner,
                 calls, status>>

\* lines 153-155: stop() is invoked on the current instance, if any
StopHelia(t) ==
  /\ pc[t] = "stopHelia"
  /\ IF heliaInstance # 0
       THEN /\ stopped' = stopped \cup {heliaInstance}
            /\ pc' = [pc EXCEPT ![t] = "stop_await"]
            /\ UNCHANGED ret
       ELSE /\ ret' = [ret EXCEPT ![t] = Value(Null)]
            /\ pc' = [pc EXCEPT ![t] = "done"]
            /\ UNCHANGED stopped
  /\ UNCHANGED <<modVars, envVars, listVars, createCalls, nodes, nodePins, nodeBlocks,
                 op, args, fs, i, results, inner, calls, status, hist>>

\* lines 155-158: stop() resolves and both singletons are cleared, or it
\* rejects
StopHelia_Stopped(t) ==
  /\ pc[t] = "stop_await"
  /\ \E r \in {Fulfilled("")} \cup {NetTypeError} :
       IF r.type = "ok"
         THEN /\ heliaInstance' = 0
              /\ unixfsInstance' = 0
              /\ ret' = [ret EXCEPT ![t] = Value(Null)]
              /\ pc' = [pc EXCEPT ![t] = "done"]
         ELSE /\ Raise(t, ErrorMessage(r))
              /\ UNCHANGED <<heliaInstance, unixfsInstance>>
  /\ UNCHANGED <<pinataInstance, envVars, listVars, nodeVars, op, args, fs, i, results, inner,
                 calls, status, hist>>

Call_getHelia(t) ==
  /\ Enter(t, "getHelia", "getHelia", NoArgs)
  /\ UNCHANGED <<modVars, envVars, nodeVars>>

Call_uploadToIPFS(t) ==
  /\ \E d \in Data, a \in BOOLEAN :
       Enter(t, "uploadToIPFS", "getUnixFS", [NoArgs EXCEPT !.data = d, !.autoPin = a])
  /\ UNCHANGED <<modVars, envVars, nodeVars>>

Call_getFromIPFS(t) ==
  /\ \E c \in CidStrings :
       Enter(t, "getFromIPFS", "getUnixFS", [NoArgs EXCEPT !.cid = c])
  /\ UNCHANGED <<modVars, envVars, nodeVars>>

Call_pinCID(t) ==
  /\ \E c \in CidStrings : Enter(t, "pinCID", "pinCID", [NoArgs EXCEPT !.cid = c])
  /\ UNCHANGED <<modVars, envVars, nodeVars>>

Call_stopHelia(t) ==
  /\ Enter(t, "stopHelia", "stopHelia", NoArgs)
  /\ UNCHANGED <<modVars, envVars, nodeVars>>


(* ----------------------------------------------------- checkPinningStatus *)
Bool(b) == IF b THEN "true" ELSE "false"

\* response.json() of /api/v0/pin/ls: { Keys: { <cid>: ... } }, or an object
\* without Keys
KuboKeySets == {Absent} \cup SUBSET ValidCids

\* result.Keys && result.Keys[cid] !== undefined
KeysHold(keys, cid) ==
  IF keys = Absent THEN "undefined" ELSE Bool(cid \in keys)

Checked(h, field, answer) == [h EXCEPT !.checks[field] = answer]

\* lines 251-260: CID.parse (outside every try), the initial snapshot, and
\* helia.pins.isPinned is issued
CheckPinningStatus(t) ==
  /\ pc[t] = "check"
  /\ IF ParsesAsCid(args[t].cid)
       THEN /\ status' = [status EXCEPT ![t] = NoStatus]
            /\ pc' = [pc EXCEPT ![t] = "check_helia"]
            /\ UNCHANGED ret
       ELSE /\ Raise(t, ErrParse)
            /\ UNCHANGED status
  /\ UNCHANGED <<modVars, envVars, listVars, nodeVars, op, args, fs, i, results, inner, calls, hist>>

\* lines 260-272: isPinned resolves or rejects; then getPinataSDK() and, with
\* a credential, the status query is issued; without one the Kubo fetch is
CheckPinningStatus_Helia(t) ==
  /\ pc[t] = "check_helia"
  /\ \E ok \in BOOLEAN :
       LET pinned == Bool(args[t].cid \in nodePins[args[t].helia])
       IN  /\ status' = [status EXCEPT ![t].heliaLocal = IF ok THEN pinned ELSE @]
           /\ hist' = [hist EXCEPT ![t] =
                Checked(@, "heliaLocal", IF ok THEN pinned ELSE "throw")]
  /\ pinataInstance' = (pinataInstance \/ jwt)
  /\ pc' = [pc EXCEPT ![t] = IF jwt THEN "check_pinata" ELSE "check_kubo"]
  /\ UNCHANGED <<heliaInstance, unixfsInstance, envVars, listVars, nodeVars,
                 op, args, fs, i, results, inner, ret, calls>>

\* a check that drops the answer of the status query
CheckPinningStatus_Pinata_dropped(t) ==
  /\ pc[t] = "check_pinata"
  /\ \E r \in ListResponses :
       hist' = [hist EXCEPT ![t] =
            Checked(@, "pinata", Bool(ListingNames(r, args[t].cid)))]
  /\ pc' = [pc EXCEPT ![t] = "check_kubo"]
  /\ UNCHANGED <<modVars, envVars, listVars, nodeVars, op, args, fs, i, results, inner, ret,
                 calls, status>>

\* lines 272-273: the status query resolves
CheckPinningStatus_Pinata(t) ==
  /\ pc[t] = "check_pinata"
  /\ \E r \in ListResponses :
       /\ status' = [status EXCEPT ![t].pinata = Bool(hasPinnedCid(r, args[t].cid))]
       /\ hist' = [hist EXCEPT ![t] =
            Checked(@, "pinata", Bool(ListingNames(r, args[t].cid)))]
  /\ pc' = [pc EXCEPT ![t] = "check_kubo"]
  /\ UNCHANGED <<modVars, envVars, listVars, nodeVars, op, args, fs, i, results, inner, ret, calls>>

\* the status query rejects with no catch around it
CheckPinningStatus_PinataThrew_uncaught(t) ==
  /\ pc[t] = "check_pinata"
  /\ hist' = [hist EXCEPT ![t] = Checked(@, "pinata", "throw")]
  /\ ret' = [ret EXCEPT ![t] = [kind |-> "throw", val |-> "Failed to fetch"]]
  /\ pc' = [pc EXCEPT ![t] = "done"]
  /\ UNCHANGED <<modVars, envVars, listVars, nodeVars, op, args, fs, i, results, inner, calls, status>>

\* lines 275-278: the status query rejects
CheckPinningStatus_PinataThrew(t) ==
  /\ pc[t] = "check_pinata"
  /\ status' = [status EXCEPT ![t].pinata = "false"]
  /\ hist' = [hist EXCEPT ![t] = Checked(@, "pinata", "throw")]
  /\ pc' = [pc EXCEPT ![t] = "check_kubo"]
  /\ UNCHANGED <<modVars, envVars, listVars, nodeVars, op, args, fs, i, results, inner, ret, calls>>

\* lines 281-287, 291-295: the fetch of /api/v0/pin/ls resolves (ok or not) or
\* rejects
CheckPinningStatus_Kubo(t) ==
  /\ pc[t] = "check_kubo"
  /\ \E r \in {"ok", "not ok", "throw"} :
       IF r = "ok"
         THEN /\ pc' = [pc EXCEPT ![t] = "check_kubo_body"]
              /\ UNCHANGED <<ret, hist>>
         ELSE /\ ret' = [ret EXCEPT ![t] = Value(status[t])]
              /\ pc' = [pc EXCEPT ![t] = "done"]
              /\ hist' = [hist EXCEPT ![t] = Checked(@, "localNode", r)]
  /\ UNCHANGED <<modVars, envVars, listVars, nodeVars, op, args, fs, i, results, inner, calls, status>>

\* lines 288-295: response.json() resolves with the pin listing or rejects
CheckPinningStatus_KuboBody(t) ==
  /\ pc[t] = "check_kubo_body"
  /\ \E ok \in BOOLEAN, keys \in KuboKeySets :
       /\ ~ok => keys = Absent
       /\ LET st == IF ok THEN [status[t] EXCEPT !.localNode = KeysHold(keys, args[t].cid)]
                    ELSE status[t]
          IN  /\ status' = [status EXCEPT ![t] = st]
              /\ ret' = [ret EXCEPT ![t] = Value(st)]
              /\ hist' = [hist EXCEPT ![t] =
                   Checked(@, "localNode",
                           IF ~ok THEN "throw"
                           ELSE IF keys = Absent THEN "no Keys"
                           ELSE Bool(args[t].cid \in keys))]
  /\ pc' = [pc EXCEPT ![t] = "done"]
  /\ UNCHANGED <<modVars, envVars, listVars, nodeVars, op, args, fs, i, results, inner, calls>>

\* IPFSTest.tsx lines 204-205, 253: checkPinningStatus(helia, cid)
Call_checkPinningStatus(t) ==
  /\ \E c \in CidStrings, h \in nodes :
       Enter(t, "checkPinningStatus", "check", [NoArgs EXCEPT !.cid = c, !.helia = h])
  /\ UNCHANGED <<modVars, envVars, nodeVars>>

(* --------------------------------------------------------- listPinataPins *)
Undefined == "undefined"
\* the provider's statuses for an identifier ("none": it holds no record)
RowStatuses == {"none", "pending", "searching", "pinned"}
PendingLike == {"pending", "searching"}
\* the order in which the provider lists its records
CidOrder == <<"cidA", "cidB">>

\* one element of the rows array of a /data/pinList response, with the alias
\* fields lines 464-473 read
RawPin(c, s) ==
  [ipfs_pin_hash |-> c, hash |-> Undefined, cid |-> Undefined,
   status |-> s, pin_status |-> Undefined, state |-> Undefined]

\* JavaScript truthiness of an optional string field
Truthy(v) == v \notin {Undefined, ""}

\* String.prototype.toLowerCase on the status words
toLowerCase(w) ==
  CASE w = "Pinned" -> "pinned"
    [] w = "PINNED" -> "pinned"
    [] w = "Pending" -> "pending"
    [] w = "Searching" -> "searching"
    [] OTHER -> w

\* the rows the provider answers a pinList query with: with a status filter
\* the records in that status; without one its pinned records and, when
\* withQueued, the records still queued as well
ProviderRows(filter, withQueued) ==
  LET full == [k \in 1..Len(CidOrder) |-> RawPin(CidOrder[k], rows[CidOrder[k]])]
      Keep(r) == /\ r.status # "none"
                 /\ IF filter = Undefined
                      THEN withQueued \/ r.status = "pinned"
                      ELSE r.status = filter
  IN  SelectSeq(full, Keep)

\* lines 415-421 and 446-452: merge the rows of a further query into allPins,
\* skipping every row whose ipfs_pin_hash is already present
RECURSIVE MergePins(_, _)
MergePins(pins, more) ==
  IF more = <<>> THEN pins
  ELSE LET pin == Head(more)
       IN  IF \E k \in 1..Len(pins) : pins[k].ipfs_pin_hash = pin.ipfs_pin_hash
             THEN MergePins(pins, Tail(more))
             ELSE MergePins(Append(pins, pin), Tail(more))

\* lines 461-479: one raw row to the canonical PinataPin
NormalisePin(pin) ==
  [cid |-> IF Truthy(pin.ipfs_pin_hash) THEN pin.ipfs_pin_hash
           ELSE IF Truthy(pin.hash) THEN pin.hash
           ELSE IF Truthy(pin.cid) THEN pin.cid
           ELSE "",
   status |-> IF Truthy(pin.status) THEN toLowerCase(pin.status)
              ELSE IF Truthy(pin.pin_status) THEN toLowerCase(pin.pin_status)
              ELSE IF Truthy(pin.state) THEN toLowerCase(pin.state)
              ELSE "unknown"]

NormalisePins(pins) == [k \in 1..Len(pins) |-> NormalisePin(pins[k])]

\* a status test that lets every record through
IsPendingLike_all(pin) == TRUE
IsPendingLike(pin) == pin.status \in PendingLike

\* lines 486-498: the optional status filter
FilterByStatus(pins, wanted) ==
  LET Same(pin) == pin.status = toLowerCase(wanted)
  IN  IF wanted = Undefined THEN pins
      ELSE IF toLowerCase(wanted) = "pending" THEN SelectSeq(pins, IsPendingLike)
      ELSE SelectSeq(pins, Same)

\* the identifiers raw rows carry, each under whichever alias line 473 reads
Ids(pins) == {NormalisePin(pins[k]).cid : k \in 1..Len(pins)}

\* rows as other API versions spell them: the identifier under `hash` or
\* under `cid` instead of `ipfs_pin_hash`
HashPin(c, s) == [RawPin(Undefined, s) EXCEPT !.hash = c]
CidPin(c, s) == [RawPin(Undefined, s) EXCEPT !.cid = c]

\* what is kept of one pinList query for later comparison: whether it was
\* answered, the identifiers of its rows, and those carried as ipfs_pin_hash
Unanswered == [ok |-> FALSE, ids |-> {}, hashes |-> {}]
Answered(rs) ==
  [ok |-> TRUE, ids |-> Ids(rs),
   hashes |-> {rs[j].ipfs_pin_hash : j \in {n \in 1..Len(rs) : Truthy(rs[n].ipfs_pin_hash)}}]

\* a pinList response of any content: up to MaxRows rows, in any order, with
\* repetitions, under any alias
MaxRows == 2
RawPins ==
  {RawPin("cidA", "pinned"), RawPin("cidB", "searching"),
   HashPin("cidA", "pending"), CidPin("cidB", "pending")}
AnyRows == UNION {[1..n -> RawPins] : n \in 0..MaxRows}

ListFailed(msg) == [success |-> FALSE, pins |-> <<>>, error |-> msg]
Listed(pins) == [success |-> TRUE, pins |-> pins, error |-> Undefined]
ErrFetchPins == "Failed to fetch pins: 500"
ErrFetchPinsDefault == "Failed to fetch pins"

\* listPinataPins returns r: to the consumer, or into
\* unpinAllPendingFromPinata at lines 532-556
ListReturn(t, r) ==
  IF op[t] = "listPinataPins"
    THEN /\ ret' = [ret EXCEPT ![t] = Value(r)]
         /\ pc' = [pc EXCEPT ![t] = "done"]
         /\ UNCHANGED <<pendingPins, i>>
    ELSE IF ~r.success
      THEN /\ ret' = [ret EXCEPT ![t] = Value(
                 [success |-> FALSE, unpinned |-> 0,
                  errors |-> <<IF Truthy(r.error) THEN r.error ELSE ErrFetchPinsDefault>>])]
           /\ pc' = [pc EXCEPT ![t] = "done"]
           /\ UNCHANGED <<pendingPins, i>>
      ELSE LET pending == SelectSeq(r.pins, IsPendingLike)
           IN  IF pending = <<>>
                 THEN /\ ret' = [ret EXCEPT ![t] = Value(result[t])]
                      /\ pc' = [pc EXCEPT ![t] = "done"]
                      /\ UNCHANGED <<pendingPins, i>>
                 ELSE /\ pendingPins' = [pendingPins EXCEPT ![t] = pending]
                      /\ i' = [i EXCEPT ![t] = 1]
                      /\ pc' = [pc EXCEPT ![t] = "unpinAll_loop"]
                      /\ UNCHANGED ret

\* lines 363-387: no credential, no query; otherwise the unfiltered query
ListPinataPins(t) ==
  /\ pc[t] = "list"
  /\ IF ~jwt
       THEN /\ ListReturn(t, ListFailed(ErrJwt))
            /\ UNCHANGED pinataInstance
       ELSE /\ pinataInstance' = TRUE
            /\ pc' = [pc EXCEPT ![t] = "list_all"]
            /\ UNCHANGED <<pendingPins, i, ret>>
  /\ UNCHANGED <<heliaInstance, unixfsInstance, envVars, nodeVars, op, args, fs,
                 results, inner, calls, status, allPins, result, hist, locations>>

\* lines 382-395, 504-511: the unfiltered query is answered; a rejection or
\* a non-2xx status ends the listing with success:false
ListPinataPins_AllOf(t, answers) ==
  /\ pc[t] = "list_all"
  /\ \/ /\ \E e \in Thrown : ListReturn(t, ListFailed(ErrorMessage(e)))
        /\ hist' = [hist EXCEPT ![t].pinLists = <<Unanswered>>]
        /\ UNCHANGED allPins
     \/ /\ ListReturn(t, ListFailed(ErrFetchPins))
        /\ hist' = [hist EXCEPT ![t].pinLists = <<Unanswered>>]
        /\ UNCHANGED allPins
     \/ /\ \E rs \in answers :
             /\ allPins' = [allPins EXCEPT ![t] = rs]
             /\ hist' = [hist EXCEPT ![t].listed = Ids(rs),
                                     ![t].pinLists = <<Answered(rs)>>]
        /\ pc' = [pc EXCEPT ![t] = "list_searching"]
        /\ UNCHANGED <<pendingPins, i, ret>>
  /\ UNCHANGED <<modVars, envVars, nodeVars, op, args, fs, results, inner, calls,
                 status, result, locations>>

\* the unfiltered query answered from the provider's records `rows`
ListPinataPins_All(t) ==
  ListPinataPins_AllOf(t, {ProviderRows(Undefined, withQueued) : withQueued \in BOOLEAN})

\* a listing that gives up when the status=searching query fails
ListPinataPins_SearchingOf_strict(t, answers) ==
  /\ pc[t] = "list_searching"
  /\ \/ /\ hist' = [hist EXCEPT ![t].pinLists = Append(@, Unanswered)]
        /\ ListReturn(t, ListFailed(ErrFetchPins))
        /\ UNCHANGED allPins
     \/ /\ \E rs \in answers :
             /\ allPins' = [allPins EXCEPT ![t] = MergePins(@, rs)]
             /\ hist' = [hist EXCEPT ![t].listed = @ \cup Ids(rs),
                                     ![t].pinLists = Append(@, Answered(rs))]
        /\ pc' = [pc EXCEPT ![t] = "list_pending"]
        /\ UNCHANGED <<i, ret, pendingPins>>
  /\ UNCHANGED <<modVars, envVars, nodeVars, op, args, fs, results, inner,
                 calls, status, result, locations>>

\* lines 398-426: the status=searching query; its failure is only logged
ListPinataPins_SearchingOf(t, answers) ==
  /\ pc[t] = "list_searching"
  /\ \/ /\ hist' = [hist EXCEPT ![t].pinLists = Append(@, Unanswered)]
        /\ UNCHANGED allPins
     \/ \E rs \in answers :
          /\ allPins' = [allPins EXCEPT ![t] = MergePins(@, rs)]
          /\ hist' = [hist EXCEPT ![t].listed = @ \cup Ids(rs),
                                  ![t].pinLists = Append(@, Answered(rs))]
  /\ pc' = [pc EXCEPT ![t] = "list_pending"]
  /\ UNCHANGED <<modVars, envVars, nodeVars, op, args, fs, i, results, inner, ret,
                 calls, status, pendingPins, result, locations>>

\* the status=searching query answered from the provider's records `rows`
ListPinataPins_Searching(t) ==
  ListPinataPins_SearchingOf(t, {ProviderRows("searching", TRUE)})

\* lines 429-503: the status=pending query, then normalisation and the filter
ListPinataPins_PendingOf(t, answers) ==
  /\ pc[t] = "list_pending"
  /\ \E rs \in answers, answered \in BOOLEAN :
       LET merged == IF answered THEN MergePins(allPins[t], rs) ELSE allPins[t]
       IN  /\ allPins' = [allPins EXCEPT ![t] = merged]
           /\ hist' = [hist EXCEPT ![t].listed = IF answered THEN @ \cup Ids(rs) ELSE @,
                                   ![t].pinLists = Append(@, IF answered THEN Answered(rs) ELSE Unanswered)]
           /\ ListReturn(t, Listed(FilterByStatus(NormalisePins(merged), args[t].status)))
  /\ UNCHANGED <<modVars, envVars, nodeVars, op, args, fs, results, inner, calls,
                 status, result, locations>>

\* the status=pending query answered from the provider's records `rows`
ListPinataPins_Pending(t) ==
  ListPinataPins_PendingOf(t, {ProviderRows("pending", TRUE)})

(* -------------------------------------------------------- unpinFromPinata *)
ErrNotFound == "HTTP 404: Not Found"
ErrServer == "HTTP 500: Internal Server Error"
ErrUnknown == "Unknown error"

\* a clean-up loop that keeps no note of a failed unpin
UnpinReturn_silent(t, r) ==
  IF op[t] = "unpinFromPinata"
    THEN /\ ret' = [ret EXCEPT ![t] = Value(r)]
         /\ pc' = [pc EXCEPT ![t] = "done"]
         /\ UNCHANGED <<i, result>>
    ELSE /\ result' = [result EXCEPT ![t] =
               IF r.success THEN [@ EXCEPT !.unpinned = @ + 1] ELSE @]
         /\ i' = [i EXCEPT ![t] = @ + 1]
         /\ pc' = [pc EXCEPT ![t] = "unpinAll_loop"]
         /\ UNCHANGED ret

\* unpinFromPinata returns r: to the consumer, or into the loop of
\* unpinAllPendingFromPinata at lines 566-571
UnpinReturn(t, r) ==
  IF op[t] = "unpinFromPinata"
    THEN /\ ret' = [ret EXCEPT ![t] = Value(r)]
         /\ pc' = [pc EXCEPT ![t] = "done"]
         /\ UNCHANGED <<i, result>>
    ELSE /\ result' = [result EXCEPT ![t] =
               IF r.success
                 THEN [@ EXCEPT !.unpinned = @ + 1]
                 ELSE [@ EXCEPT !.errors = Append(@,
                         args[t].cid \o ": " \o
                           (IF Truthy(r.error) THEN r.error ELSE ErrUnknown))]]
         /\ i' = [i EXCEPT ![t] = @ + 1]
         /\ pc' = [pc EXCEPT ![t] = "unpinAll_loop"]
         /\ UNCHANGED ret

\* lines 303-321: no credential, no request; otherwise the DELETE request
\* for the identifier is issued
UnpinFromPinata(t) ==
  /\ pc[t] = "unpin"
  /\ IF ~jwt
       THEN /\ UnpinReturn(t, Result(FALSE, "pinata", ErrJwt))
            /\ UNCHANGED <<pinataInstance, hist>>
       ELSE /\ pinataInstance' = TRUE
            /\ hist' = [hist EXCEPT ![t].deletes = @ \cup
                 {[cid |-> args[t].cid,
                   atProvider |-> IF args[t].cid \in ValidCids
                                    THEN rows[args[t].cid] ELSE "none"]}]
            /\ pc' = [pc EXCEPT ![t] = "unpin_delete"]
            /\ UNCHANGED <<i, result, ret>>
  /\ UNCHANGED <<heliaInstance, unixfsInstance, envVars, nodeVars, op, args, fs,
                 results, inner, calls, status, allPins, pendingPins, locations>>

\* unpinFromPinata without its catch block: a failed DELETE rejects
UnpinFromPinata_Answered_uncaught(t) ==
  /\ pc[t] = "unpin_delete"
  /\ LET c == args[t].cid
         held == c \in ValidCids /\ rows[c] # "none"
     IN  \/ /\ held
            /\ rows' = [rows EXCEPT ![c] = "none"]
            /\ UnpinReturn(t, [success |-> TRUE, provider |-> "pinata", error |-> "undefined"])
         \/ /\ ret' = [ret EXCEPT ![t] = [kind |-> "throw", val |-> "HTTP 500: Internal Server Error"]]
            /\ pc' = [pc EXCEPT ![t] = "done"]
            /\ UNCHANGED <<rows, i, result>>
  /\ UNCHANGED <<modVars, jwt, memo, idb, nodeVars, op, args, fs, results, inner, calls,
                 status, allPins, pendingPins, hist, locations>>

\* lines 316-343: the provider answers the DELETE: it removes the record it
\* holds, answers not-found for one it does not hold, or fails
UnpinFromPinata_Answered(t) ==
  /\ pc[t] = "unpin_delete"
  /\ LET c == args[t].cid
         held == c \in ValidCids /\ rows[c] # "none"
     IN  \/ /\ held
            /\ rows' = [rows EXCEPT ![c] = "none"]
            /\ hist' = [hist EXCEPT ![t].unpin = "deleted"]
            /\ UnpinReturn(t, Result(TRUE, "pinata", NoError))
         \/ /\ ~held
            /\ hist' = [hist EXCEPT ![t].unpin = "not-found"]
            /\ UnpinReturn(t, Result(FALSE, "pinata", ErrNotFound))
            /\ UNCHANGED rows
         \/ /\ hist' = [hist EXCEPT ![t].unpin = "error"]
            /\ UnpinReturn(t, Result(FALSE, "pinata", ErrServer))
            /\ UNCHANGED rows
         \/ /\ hist' = [hist EXCEPT ![t].unpin = "threw"]
            /\ \E e \in Thrown : UnpinReturn(t, Result(FALSE, "pinata", ErrorMessage(e)))
            /\ UNCHANGED rows
  /\ UNCHANGED <<modVars, jwt, memo, idb, nodeVars, op, args, fs, results, inner, calls,
                 status, allPins, pendingPins, locations>>

(* ---------------------------------------------- unpinAllPendingFromPinata *)
\* lines 524-532: the result record, then listPinataPins() without a filter
UnpinAllPendingFromPinata(t) ==
  /\ pc[t] = "unpinAll"
  /\ result' = [result EXCEPT ![t] = NoUnpinAll]
  /\ pc' = [pc EXCEPT ![t] = "list"]
  /\ UNCHANGED <<modVars, envVars, nodeVars, op, args, fs, i, results, inner, ret,
                 calls, status, allPins, pendingPins, hist, locations>>

\* lines 559-574: the next record of pendingPins: its status as listed is
\* looked at again, then it is handed to unpinFromPinata
UnpinAllPendingFromPinata_Next(t) ==
  /\ pc[t] = "unpinAll_loop"
  /\ IF i[t] > Len(pendingPins[t])
       THEN /\ ret' = [ret EXCEPT ![t] = Value(result[t])]
            /\ pc' = [pc EXCEPT ![t] = "done"]
            /\ UNCHANGED <<args, i>>
       ELSE LET pin == pendingPins[t][i[t]]
            IN  IF ~IsPendingLike(pin)
                  THEN /\ i' = [i EXCEPT ![t] = @ + 1]
                       /\ UNCHANGED <<args, pc, ret>>
                  ELSE /\ args' = [args EXCEPT ![t].cid = pin.cid]
                       /\ pc' = [pc EXCEPT ![t] = "unpin"]
                       /\ UNCHANGED <<i, ret>>
  /\ UNCHANGED <<modVars, envVars, nodeVars, op, fs, results, inner, calls, status,
                 listVars, hist>>

\* the provider finishes pinning a queued record
Provider_Confirms(c) ==
  /\ rows[c] \in PendingLike
  /\ rows' = [rows EXCEPT ![c] = "pinned"]
  /\ UNCHANGED <<modVars, jwt, memo, idb, nodeVars, frameVars, listVars, hist>>

\* IPFSTest.tsx: the list, unpin and clean-up buttons
Call_listPinataPins(t) ==
  /\ \E w \in {Undefined, "pinned", "pending", "searching"} :
       Enter(t, "listPinataPins", "list", [NoArgs EXCEPT !.status = w])
  /\ UNCHANGED <<modVars, envVars, nodeVars>>

Call_unpinFromPinata(t) ==
  /\ \E c \in CidStrings :
       Enter(t, "unpinFromPinata", "unpin", [NoArgs EXCEPT !.cid = c])
  /\ UNCHANGED <<modVars, envVars, nodeVars>>

Call_unpinAllPendingFromPinata(t) ==
  /\ Enter(t, "unpinAllPendingFromPinata", "unpinAll", NoArgs)
  /\ UNCHANGED <<modVars, envVars, nodeVars>>

Listing(t) ==
  \/ ListPinataPins(t)
  \/ ListPinataPins_All(t)
  \/ ListPinataPins_Searching(t)
  \/ ListPinataPins_Pending(t)
  \/ UnpinFromPinata(t)
  \/ UnpinFromPinata_Answered(t)
  \/ UnpinAllPendingFromPinata(t)
  \/ UnpinAllPendingFromPinata_Next(t)

(* ------------------------------------------------------ searchCIDsInHelia *)
\* the identifier lists the diagnostics panel searches for
SearchInputs == {<<>>, <<"cidA">>, <<BadCid>>, <<"cidA", BadCid>>, <<BadCid, "cidA">>}

\* helia-cid-search.ts lines 29-62: the locations searchInPinStore finds for
\* one identifier; an unparseable identifier or a rejected isPinned leaves
\* none. pins.ls() yields pin records, whose toString() is not the identifier.
PinStoreLocations(h, c, rejected) ==
  IF ParsesAsCid(c) /\ ~rejected /\ c \in nodePins[h]
    THEN <<[type |-> "pin-store", database |-> "undefined",
            details |-> "Found in Helia pin store", key |-> <<>>]>>
    ELSE <<>>

\* a block-store search that also takes the provider's word for it
BlockstoreLocations_remote(h, c, rejected) ==
  IF ParsesAsCid(c) /\ ~rejected /\ (c \in nodeBlocks[h] \/ rows[c] = "pinned")
    THEN <<[type |-> "blockstore", database |-> "undefined",
            details |-> "Block found", key |-> <<>>]>>
    ELSE <<>>

\* lines 78-98: the locations searchInBlockstore finds for one identifier
BlockstoreLocations(h, c, rejected) ==
  IF ParsesAsCid(c) /\ ~rejected /\ c \in nodeBlocks[h]
    THEN <<[type |-> "blockstore", database |-> "undefined",
            details |-> "Block found", key |-> <<>>]>>
    ELSE <<>>

\* the characters of an identifier string, in pieces
IdText(c) ==
  CASE c = "cidA" -> <<"cid", "A">>
    [] c = "cidB" -> <<"cid", "B">>
    [] OTHER -> <<"not-a-", "cid">>

\* String.prototype.includes (lines 178 and 195) on texts, sequences of
\* pieces of characters: sub occurs in s as a contiguous run
Includes(s, sub) ==
  \E k \in 0..(Len(s) - Len(sub)) : SubSeq(s, k + 1, k + Len(sub)) = sub

\* the databases an origin may hold: 'helia' is the first of the well-known
\* names of lines 117-128, 'app' one that only indexedDB.databases() names.
\* The records are in scan order: a key equal to an identifier, a key that
\* contains it, a key that is a part of it, a value that holds it, and a
\* record that has nothing of it
\* The storage states searched hold at most MaxRecords of them, in order
MaxRecords == 2
IdbStates ==
  LET IdbRecords ==
        <<[database |-> "helia", key |-> <<"cid", "A">>, value |-> <<"meta">>],
          [database |-> "helia", key |-> <<"k">>, value |-> <<"cid", "A">>],
          [database |-> "app", key |-> <<"/pins/", "cid", "A">>, value |-> <<"meta">>],
          [database |-> "app", key |-> <<"cid">>, value |-> <<"meta">>],
          [database |-> "app", key |-> <<"k">>, value |-> <<"meta">>]>>
  IN  {[names |-> {IdbRecords[k].database : k \in ks},
        records |-> SelectSeq(IdbRecords, LAMBDA r : \E k \in ks : IdbRecords[k] = r)] :
         ks \in {s \in SUBSET (1..Len(IdbRecords)) : Cardinality(s) <= MaxRecords}}

\* lines 149-211: the locations the scan of the databases in `opened` records
\* for one identifier: per database, one for each key that contains the
\* identifier or is contained in it (line 178), then one for each value
\* whose JSON.stringify contains it (lines 194-195)
IndexedDBLocations(c, opened) ==
  LET Scan(d) ==
        LET rs == SelectSeq(idb.records, LAMBDA r : r.database = d)
            keys == SelectSeq(rs, LAMBDA r :
                      Includes(r.key, IdText(c)) \/ Includes(IdText(c), r.key))
            values == SelectSeq(rs, LAMBDA r :
                      Includes(<<"\"">> \o r.value \o <<"\"">>, IdText(c)))
        IN  [k \in 1..Len(keys) |->
               [type |-> "indexeddb", database |-> d,
                details |-> "Found in key", key |-> keys[k].key]]
            \o [k \in 1..Len(values) |->
               [type |-> "indexeddb", database |-> d,
                details |-> "Found in value at key", key |-> values[k].key]]
  IN  (IF "helia" \in opened THEN Scan("helia") ELSE <<>>)
      \o (IF "app" \in opened THEN Scan("app") ELSE <<>>)

\* lines 248-252: searchInPinStore over all identifiers. The try/catch of
\* lines 32-63 is inside the loop over the identifiers, so the reads of the
\* identifiers in `rejected` fail and the others go on
SearchInPinStore(t) ==
  /\ pc[t] = "search_pins"
  /\ \E rejected \in SUBSET (1..Len(args[t].cids)) :
       /\ locations' = [locations EXCEPT ![t] =
            [k \in 1..Len(args[t].cids) |->
               PinStoreLocations(args[t].helia, args[t].cids[k], k \in rejected)]]
       /\ hist' = [hist EXCEPT ![t].failed =
                     @ \cup {<<"pin-store", k>> : k \in rejected},
                                ![t].before =
                     [idb |-> idb, pins |-> nodePins[args[t].helia],
                      blocks |-> nodeBlocks[args[t].helia]]]
  /\ pc' = [pc EXCEPT ![t] = "search_blocks"]
  /\ UNCHANGED <<modVars, envVars, allPins, pendingPins, result, nodeVars, op, args,
                 fs, i, results, inner, ret,
                 calls, status>>

\* a block-store search whose try/catch is around the whole loop: the first
\* rejected read ends the search of the remaining identifiers
SearchInBlockstore_outer(t) ==
  /\ pc[t] = "search_blocks"
  /\ \E rejected \in SUBSET (1..Len(args[t].cids)) :
       /\ locations' = [locations EXCEPT ![t] =
            [k \in 1..Len(args[t].cids) |->
               @[k] \o BlockstoreLocations(args[t].helia, args[t].cids[k],
                                           \E j \in rejected : j <= k)]]
       /\ hist' = [hist EXCEPT ![t].failed =
                     @ \cup {<<"blockstore", k>> : k \in rejected}]
  /\ pc' = [pc EXCEPT ![t] = "search_idb"]
  /\ UNCHANGED <<modVars, envVars, allPins, pendingPins, result, nodeVars, op, args,
                 fs, i, results, inner, ret,
                 calls, status>>

\* lines 255-259: searchInBlockstore over all identifiers, with the
\* try/catch of lines 78-99 inside the loop as well
SearchInBlockstore(t) ==
  /\ pc[t] = "search_blocks"
  /\ \E rejected \in SUBSET (1..Len(args[t].cids)) :
       /\ locations' = [locations EXCEPT ![t] =
            [k \in 1..Len(args[t].cids) |->
               @[k] \o BlockstoreLocations(args[t].helia, args[t].cids[k], k \in rejected)]]
       /\ hist' = [hist EXCEPT ![t].failed =
                     @ \cup {<<"blockstore", k>> : k \in rejected}]
  /\ pc' = [pc EXCEPT ![t] = "search_idb"]
  /\ UNCHANGED <<modVars, envVars, allPins, pendingPins, result, nodeVars, op, args,
                 fs, i, results, inner, ret,
                 calls, status>>

\* a combination that decides `found` before the IndexedDB locations are added
SearchIndexedDBDetailed_early(t) ==
  /\ pc[t] = "search_idb"
  /\ \E listed \in BOOLEAN :
     \E opened \in SUBSET ({"helia"} \cup (IF listed THEN idb.names ELSE {})) :
       LET combined == [k \in 1..Len(args[t].cids) |->
                           locations[t][k] \o IndexedDBLocations(args[t].cids[k], opened)]
       IN  /\ idb' = [idb EXCEPT !.names = @ \cup opened]
           /\ hist' = [hist EXCEPT ![t].opened = opened]
           /\ locations' = [locations EXCEPT ![t] = combined]
           /\ ret' = [ret EXCEPT ![t] = Value(
                 [k \in 1..Len(args[t].cids) |->
                    [cid |-> args[t].cids[k],
                     found |-> Len(locations[t][k]) > 0,
                     locations |-> combined[k]]])]
  /\ pc' = [pc EXCEPT ![t] = "done"]
  /\ UNCHANGED <<modVars, jwt, rows, memo, allPins, pendingPins, result, nodeVars, op, args,
                 fs, i, results, inner,
                 calls, status>>

\* lines 262-291: searchIndexedDBDetailed, then the combined result. The
\* scan takes the well-known names and, where indexedDB.databases() answers
\* (listed), the names of the origin's databases; a database whose open
\* fails contributes nothing; indexedDB.open(dbName) without a version
\* (line 230) creates a database that does not exist
SearchIndexedDBDetailed(t) ==
  /\ pc[t] = "search_idb"
  /\ \E listed \in BOOLEAN :
     \E opened \in SUBSET ({"helia"} \cup (IF listed THEN idb.names ELSE {})) :
       LET combined == [k \in 1..Len(args[t].cids) |->
                           locations[t][k] \o IndexedDBLocations(args[t].cids[k], opened)]
       IN  /\ idb' = [idb EXCEPT !.names = @ \cup opened]
           /\ hist' = [hist EXCEPT ![t].opened = opened]
           /\ locations' = [locations EXCEPT ![t] = combined]
           /\ ret' = [ret EXCEPT ![t] = Value(
                 [k \in 1..Len(args[t].cids) |->
                    [cid |-> args[t].cids[k],
                     found |-> Len(combined[k]) > 0,
                     locations |-> combined[k]]])]
  /\ pc' = [pc EXCEPT ![t] = "done"]
  /\ UNCHANGED <<modVars, jwt, rows, memo, allPins, pendingPins, result, nodeVars, op, args,
                 fs, i, results, inner,
                 calls, status>>

\* IPFSTest.tsx line 748: searchCIDsInHelia(helia, searchingCids)
Call_searchCIDsInHelia(t) ==
  /\ \E h \in nodes, cs \in SearchInputs :
       Enter(t, "searchCIDsInHelia", "search_pins",
             [NoArgs EXCEPT !.helia = h, !.cids = cs])
  /\ UNCHANGED <<modVars, envVars, nodeVars>>

Searching(t) ==
  \/ SearchInPinStore(t)
  \/ SearchInBlockstore(t)
  \/ SearchIndexedDBDetailed(t)

(* ---------------------------------------------------------- specification *)
\* no caller is inside a call
InitCallers ==
  /\ pinataInstance = FALSE
  /\ jwt \in BOOLEAN
  /\ stopped = {}
  /\ nodePins = [n \in 1..MaxNodes |-> {}]
  /\ nodeBlocks = [n \in 1..MaxNodes |-> {}]
  /\ pc = [t \in Tasks |-> "idle"]
  /\ args = [t \in Tasks |-> NoArgs]
  /\ fs = [t \in Tasks |-> 0]
  /\ i = [t \in Tasks |-> 0]
  /\ results = [t \in Tasks |-> <<>>]
  /\ inner = [t \in Tasks |-> NoResult]
  /\ ret = [t \in Tasks |-> NoRet]
  /\ calls = [t \in Tasks |-> 0]
  /\ status = [t \in Tasks |-> NoStatus]
  /\ allPins = [t \in Tasks |-> <<>>]
  /\ pendingPins = [t \in Tasks |-> <<>>]
  /\ result = [t \in Tasks |-> NoUnpinAll]
  /\ locations = [t \in Tasks |-> <<>>]
  /\ memo = NoMemo
  /\ hist = [t \in Tasks |-> NoHist]

\* ipfs.ts lines 8-9: both singletons null, no node constructed
Init0 ==
  /\ InitCallers
  /\ idb = [names |-> {"helia"}, records |-> <<>>]
  /\ heliaInstance = 0
  /\ unixfsInstance = 0
  /\ createCalls = 0
  /\ nodes = {}

\* one consumer, whose calls follow one another
Init ==
  /\ Init0
  /\ op = [t \in Tasks |-> IF t = 1 THEN "idle" ELSE "off"]
  /\ rows = [c \in ValidCids |-> IF c = "cidA" THEN "pending" ELSE "pinned"]

Orchestration(t) ==
  \/ PinToAllServices(t)
  \/ PinToPinata(t)
  \/ PinToPinata_Submitted(t)
  \/ WaitForPinataPin_Answered(t)
  \/ WaitForPinataPin_Threw(t)
  \/ PinToPinata_Uploaded(t)
  \/ PinToAllServices_LocalNode(t)
  \/ PinToLocalNode_Fetched(t)
  \/ PinToLocalNode_Body(t)
  \/ PinToAllServices_HeliaLocal(t)
  \/ PinToHeliaLocal_Added(t)
  \/ PinToAllServices_Return(t)

Pinning(t) ==
  \/ Orchestration(t)
  \/ PinToPinata_Return(t)

\* getHelia and what reaches it through getUnixFS
Initialising(t) ==
  \/ GetHelia(t)
  \/ GetHelia_Created(t)
  \/ GetUnixFS(t)
  \/ GetUnixFS_Check(t)
  \/ GetFromIPFS_Cat(t)

Node(t) ==
  \/ GetHelia(t)
  \/ GetHelia_Created(t)
  \/ GetUnixFS(t)
  \/ GetUnixFS_Check(t)
  \/ UploadToIPFS_Added(t)
  \/ GetFromIPFS_Cat(t)
  \/ PinCID(t)
  \/ PinCID_Check(t)
  \/ StopHelia(t)
  \/ StopHelia_Stopped(t)

Checking(t) ==
  \/ CheckPinningStatus(t)
  \/ CheckPinningStatus_Helia(t)
  \/ CheckPinningStatus_Pinata(t)
  \/ CheckPinningStatus_PinataThrew(t)
  \/ CheckPinningStatus_Kubo(t)
  \/ CheckPinningStatus_KuboBody(t)

Next ==
  \E t \in Tasks :
    \/ Call_getHelia(t)
    \/ Call_uploadToIPFS(t)
    \/ Call_getFromIPFS(t)
    \/ Call_pinCID(t)
    \/ Call_stopHelia(t)
    \/ Call_pinToPinata(t)
    \/ Call_pinToAllServices(t)
    \/ Call_checkPinningStatus(t)
    \/ Call_listPinataPins(t)
    \/ Call_unpinFromPinata(t)
    \/ Call_unpinAllPendingFromPinata(t)
    \/ Call_searchCIDsInHelia(t)
    \/ Listing(t)
    \/ Searching(t)
    \/ Pinning(t)
    \/ Node(t)
    \/ Checking(t)
    \/ Settle(t)

Spec == Init /\ [][Next]_vars

\* the same program where every started call is carried on: each awaited
\* promise settles (a provider call resolves or rejects, a sleep elapses) and
\* the continuation runs
SpecFair == Spec /\ \A t \in Tasks : WF_vars(Pinning(t))

\* the clean-up of queued records against a provider whose records move on
\* meanwhile
InitUnpin ==
  /\ Init0
  /\ op = [t \in Tasks |-> IF t = 1 THEN "idle" ELSE "off"]
  /\ rows \in [ValidCids -> RowStatuses]

NextSeed ==
  \E t \in Tasks :
    \/ Call_listPinataPins(t)
    \/ Call_unpinFromPinata(t)
    \/ Call_unpinAllPendingFromPinata(t)
    \/ Listing(t)
    \/ Settle(t)

NextUnpin ==
  \/ NextSeed
  \/ \E c \in ValidCids : Provider_Confirms(c)

SpecUnpin == InitUnpin /\ [][NextUnpin]_vars

\* the same operations against any seeded mix of records whose statuses the
\* provider does not change by itself
SpecSeed == InitUnpin /\ [][NextSeed]_vars

\* listPinataPins against pinList responses of any content
NextMerge ==
  \E t \in Tasks :
    \/ Call_listPinataPins(t)
    \/ ListPinataPins(t)
    \/ ListPinataPins_AllOf(t, AnyRows)
    \/ ListPinataPins_SearchingOf(t, AnyRows)
    \/ ListPinataPins_PendingOf(t, AnyRows)
    \/ Settle(t)

SpecMerge == Init /\ [][NextMerge]_vars

\* several callers at once, before and after the node exists
InitHelia ==
  /\ Init0
  /\ op = [t \in Tasks |-> "idle"]
  /\ rows = [c \in ValidCids |-> "none"]

NextHelia ==
  \E t \in Tasks :
    \/ Call_getHelia(t)
    \/ Call_getFromIPFS(t)
    \/ Initialising(t)
    \/ Settle(t)

SpecHelia == InitHelia /\ [][NextHelia]_vars

\* pinToAllServices called again and again on one running node
InitIso ==
  /\ InitCallers
  /\ idb = [names |-> {"helia"}, records |-> <<>>]
  /\ heliaInstance = 1
  /\ unixfsInstance = 1
  /\ createCalls = 1
  /\ nodes = {1}
  /\ op = [t \in Tasks |-> IF t = 1 THEN "idle" ELSE "off"]
  /\ rows = [c \in ValidCids |-> "none"]

NextIso ==
  \E t \in Tasks :
    \/ Call_pinToAllServices(t)
    \/ Orchestration(t)
    \/ Settle(t)
    \/ Settle_Remember(t)

SpecIso == InitIso /\ [][NextIso]_vars

\* a pin through the orchestrator, its Pinata result remembered, and the
\* reconciliation of the identifier afterwards; nothing is unpinned
NextReconcile ==
  \E t \in Tasks :
    \/ Call_pinToAllServices(t)
    \/ Orchestration(t)
    \/ Settle_Remember(t) /\ memo'.provider = 1
    \/ Call_checkPinningStatus(t)
    \/ Checking(t)
    \/ Settle(t)

SpecReconcile == InitIso /\ [][NextReconcile]_vars

\* the diagnostic search on a node that holds uploaded and pinned content, in
\* an origin whose IndexedDB holds records, with Pinata not configured (its
\* records what they may) and the Kubo node answering or not
InitSearch ==
  /\ InitCallers
  /\ ~jwt
  /\ heliaInstance = 0
  /\ unixfsInstance = 0
  /\ createCalls = 0
  /\ nodes = {}
  /\ idb \in IdbStates
  /\ op = [t \in Tasks |-> IF t = 1 THEN "idle" ELSE "off"]
  /\ rows \in {[c \in ValidCids |-> s] : s \in {"none", "pinned"}}

NextSearch ==
  \E t \in Tasks :
    \/ Call_uploadToIPFS(t)
    \/ Call_searchCIDsInHelia(t)
    \/ GetUnixFS(t)
    \/ GetHelia_Created(t)
    \/ GetUnixFS_Check(t)
    \/ UploadToIPFS_Added(t)
    \/ PinToAllServices(t)
    \/ PinToPinata(t)
    \/ PinToAllServices_LocalNode(t)
    \/ PinToLocalNode_Fetched(t)
    \/ PinToLocalNode_Body(t)
    \/ PinToAllServices_HeliaLocal(t)
    \/ PinToHeliaLocal_Added(t)
    \/ PinToAllServices_Return(t)
    \/ Searching(t)
    \/ Settle(t)

SpecSearch == InitSearch /\ [][NextSearch]_vars

\* stopHelia, the clean-up of the component's effect (IPFSTest.tsx line
\* 186), called by task 1 while the other consumers call the module's
\* operations; no provider is configured
InitStop ==
  /\ InitHelia
  /\ ~jwt

NextStop ==
  \/ Call_stopHelia(1)
  \/ StopHelia(1)
  \/ StopHelia_Stopped(1)
  \/ \E t \in Tasks \ {1} :
       \/ Call_getHelia(t)
       \/ Call_uploadToIPFS(t)
       \/ Call_getFromIPFS(t)
       \/ Call_pinCID(t)
       \/ GetHelia(t)
       \/ GetHelia_Created(t)
       \/ GetUnixFS(t)
       \/ GetUnixFS_Check(t)
       \/ UploadToIPFS_Added(t)
       \/ GetFromIPFS_Cat(t)
       \/ PinCID(t)
       \/ PinCID_Check(t)
       \/ PinToAllServices(t)
       \/ PinToPinata(t)
       \/ PinToAllServices_LocalNode(t)
       \/ PinToLocalNode_Fetched(t)
       \/ PinToLocalNode_Body(t)
       \/ PinToAllServices_HeliaLocal(t)
       \/ PinToHeliaLocal_Added(t)
       \/ PinToAllServices_Return(t)
  \/ \E t \in Tasks : Settle(t)

SpecStop == InitStop /\ [][NextStop]_vars


(* ================================================================ claims *)
SnapshotFields == {"pinata", "localNode", "heliaLocal"}

\* the orchestrator was entered by caller t and its call is over
PinAllOver(t) ==
  /\ pc[t] = "done"
  /\ op[t] \in {"pinToAllServices", "pinCID", "uploadToIPFS"}
  /\ hist[t].started # {}

\* C1: pinToPinata reports success:true only when, after its submission
\* call returned, a status query returned a listing naming exactly the
\* requested identifier; never on the submission's acknowledgement alone.
C1_SuccessOnlyAfterConfirmingQuery ==
  \A t \in Tasks :
    /\ (pc[t] = "pinata_ret" /\ inner[t].success)
         => (hist[t].submitOk /\ hist[t].confirming >= 1)
    /\ (Len(results[t]) >= 1 /\ results[t][1].success)
         => (hist[t].submitOk /\ hist[t].confirming >= 1)

C1_Witness ==
  \E t \in Tasks :
    /\ pc[t] = "pinata_ret"
    /\ inner[t] = Result(TRUE, "pinata", NoError)
    /\ hist[t].confirming >= 1
    /\ hist[t].upload.type = "ok"

\* C4: pinToAllServices never raises: whatever fails (credential, provider
\* call, confirmation, unparseable identifier) it returns exactly three
\* results, for pinata, local-node and helia-local, in that order.
C4_ThreeResultsNeverRaises ==
  \A t \in Tasks :
    /\ (hist[t].started # {} /\ op[t] # "pinToPinata") => ret[t].kind # "throw"
    /\ PinAllOver(t) =>
         /\ ret[t].kind = "value"
         /\ Len(results[t]) = 3
         /\ \A k \in 1..3 : results[t][k].provider = Providers[k]
         /\ op[t] # "uploadToIPFS" => ret[t].val = results[t]

C4_Witness ==
  \E t \in Tasks :
    /\ PinAllOver(t)
    /\ op[t] = "pinToAllServices"
    /\ args[t].cid = BadCid
    /\ ~jwt
    /\ hist[t].fetch.type = "TypeError"
    /\ Len(ret[t].val) = 3
    /\ \A k \in 1..3 : ~ret[t].val[k].success

\* C5: when the local store's pin succeeds and both remote providers fail,
\* pinToAllServices returns exactly three results of which exactly one, the
\* local store's, has success:true.
C5_LocalOnlySuccess ==
  \A t \in Tasks :
    ( /\ PinAllOver(t)
      /\ hist[t].add.type = "ok"
      /\ hist[t].confirming = 0
      /\ ~hist[t].kuboPinned )
    => /\ Len(results[t]) = 3
       /\ {k \in 1..Len(results[t]) : results[t][k].success} = {3}
       /\ results[t][3].provider = "helia-local"

C5_Witness ==
  \E t \in Tasks :
    /\ PinAllOver(t)
    /\ hist[t].add.type = "ok"
    /\ hist[t].submitOk /\ hist[t].confirming = 0
    /\ hist[t].body.type = "ok" /\ ~hist[t].kuboPinned
    /\ {k \in 1..Len(results[t]) : results[t][k].success} = {3}

\* C7: within one pinToAllServices call the attempts run in parallel: while
\* the Pinata attempt is still in progress (submission, polling, upload) the
\* local-node and helia-local attempts have been started as well.
C7_AttemptsRunInParallel ==
  \A t \in Tasks :
    (op[t] # "pinToPinata" /\ "pinata" \in hist[t].started \ hist[t].finished)
      => {"local-node", "helia-local"} \subseteq hist[t].started

\* C8: uploadToIPFS with autoPin returns the identifier whenever the local
\* add succeeded, whatever the replication outcome; it never throws after
\* the add.
C8_UploadIndependentOfReplication ==
  \A t \in Tasks :
    (op[t] = "uploadToIPFS" /\ args[t].autoPin /\ hist[t].addedBytes)
      => /\ ret[t].kind # "throw"
         /\ pc[t] = "done" => ret[t] = Value(CidOf(args[t].data))

C8_Witness ==
  \E t \in Tasks :
    /\ op[t] = "uploadToIPFS" /\ args[t].autoPin /\ pc[t] = "done"
    /\ Len(results[t]) = 3
    /\ \A k \in 1..3 : ~results[t][k].success
    /\ ret[t] = Value(CidOf(args[t].data))

\* C9: in checkPinningStatus a provider whose check throws or is unreachable
\* contributes false for its own field only; the other fields equal what
\* their own checks returned, and the snapshot is still returned.
C9_FailedCheckIsFalseForItself ==
  \A t \in Tasks :
    LET ck == hist[t].checks
    IN  (op[t] = "checkPinningStatus" /\ pc[t] = "done"
           /\ \E f \in SnapshotFields : ck[f] # "none")
        => /\ ret[t].kind = "value"
           /\ \A f \in SnapshotFields :
                /\ ck[f] \in {"throw", "not ok"} => ret[t].val[f] = "false"
                /\ ck[f] \in {"true", "false"} => ret[t].val[f] = ck[f]

C9_Witness ==
  \E t \in Tasks :
    /\ op[t] = "checkPinningStatus" /\ pc[t] = "done"
    /\ hist[t].checks.pinata = "throw"
    /\ hist[t].checks.heliaLocal = "true"
    /\ hist[t].checks.localNode = "true"
    /\ ret[t].kind = "value"
    /\ ret[t].val = [pinata |-> "false", localNode |-> "true", heliaLocal |-> "true"]

\* C2: unpinAllPendingFromPinata never issues a delete for an identifier
\* whose status at the provider is 'pinned' when the delete is issued, even
\* when the provider moved the record to pinned after the listing was
\* fetched (the status is re-checked at the provider before each delete).
C2_NoDeleteOfPinnedRecord ==
  \A t \in Tasks :
    op[t] = "unpinAllPendingFromPinata" =>
      \A d \in hist[t].deletes : d.atProvider # "pinned"

\* C3: callers that invoke getHelia (directly or through getUnixFS) before
\* the first initialisation has completed share one createHelia call, and
\* all receive the same node.
C3_SingleSharedInitialisation ==
  /\ Cardinality({t \in Tasks : pc[t] = "createHelia"}) <= 1
  /\ \A t1, t2 \in Tasks :
       ( /\ op[t1] = "getHelia" /\ pc[t1] = "done" /\ ret[t1].kind = "value"
         /\ op[t2] = "getHelia" /\ pc[t2] = "done" /\ ret[t2].kind = "value" )
       => ret[t1].val = ret[t2].val

\* C6: provider isolation in pinToAllServices: every provider's attempt is
\* made whatever the others' outcomes, the result reported for a provider is
\* determined by the call's arguments and that provider's own answers (two
\* calls that agree on them report the same result for it, whatever the other
\* providers did), and a step of one provider's attempt leaves the state the
\* other providers' attempts write alone.
PinataSteps == {"pinata", "pinata_submit", "pinata_poll1", "pinata_poll2", "pinata_upload"}
LocalNodeSteps == {"local_fetch", "local_body"}
HeliaLocalSteps == {"helia_add"}

C6_OwnAnswersDecide ==
  \A t \in Tasks :
    (op[t] = "pinToAllServices" /\ pc[t] = "done") =>
      /\ hist[t].started = {"pinata", "local-node", "helia-local"}
      /\ hist[t].finished = hist[t].started
      /\ ( /\ memo.provider # 0
           /\ memo.cid = args[t].cid
           /\ memo.content = args[t].content
           /\ memo.answers = OwnAnswers(hist[t], memo.provider) )
         => results[t][memo.provider] = memo.result

C6_OwnStateOnly ==
  \A t \in Tasks :
    /\ pc[t] \in PinataSteps => UNCHANGED <<heliaInstance, unixfsInstance, nodeVars>>
    /\ pc[t] \in LocalNodeSteps => UNCHANGED <<modVars, nodeVars>>
    /\ pc[t] \in HeliaLocalSteps => UNCHANGED <<modVars, createCalls, nodes, stopped, nodeBlocks>>

C6_ProviderIsolation == [](C6_OwnAnswersDecide) /\ [][C6_OwnStateOnly]_vars

\* a second call in which Pinata and Helia-local fail while the earlier
\* call's local-node part, with the same answers, is reported unchanged
C6_Witness ==
  \E t \in Tasks :
    /\ op[t] = "pinToAllServices" /\ pc[t] = "done"
    /\ memo.provider = 2
    /\ memo.cid = args[t].cid /\ memo.content = args[t].content
    /\ memo.answers = OwnAnswers(hist[t], 2)
    /\ memo.result.success /\ results[t][2] = memo.result
    /\ ~results[t][1].success /\ hist[t].submit.type = "TypeError"
    /\ ~results[t][3].success

\* C10 as stated: none of uploadToIPFS, getFromIPFS, pinCID,
\* checkPinningStatus, listPinataPins, unpinFromPinata and searchCIDsInHelia
\* ends by throwing, for any input and any failure.
BoundaryOps ==
  {"uploadToIPFS", "getFromIPFS", "pinCID", "checkPinningStatus",
   "listPinataPins", "unpinFromPinata", "searchCIDsInHelia"}

C10_NoneThrows ==
  \A t \in Tasks : op[t] \in BoundaryOps => ret[t].kind # "throw"

\* C10: listPinataPins, unpinFromPinata and searchCIDsInHelia always return a
\* structured result; uploadToIPFS, getFromIPFS and pinCID reject, with a
\* fixed Error, only when the node cannot be initialised or (uploadToIPFS,
\* getFromIPFS) the add or the read fails or the identifier is unparseable,
\* and never once pinning has started; checkPinningStatus rejects only for
\* an unparseable identifier.
C10_StructuredOrRejected ==
  \A t \in Tasks :
    /\ op[t] \in {"listPinataPins", "unpinFromPinata", "searchCIDsInHelia"}
         => ret[t].kind # "throw"
    /\ (op[t] \in BoundaryOps /\ pc[t] = "done") => ret[t].kind \in {"value", "throw"}
    /\ (op[t] = "checkPinningStatus" /\ ret[t].kind = "throw")
         => (~ParsesAsCid(args[t].cid) /\ ret[t].val = ErrParse)
    /\ (op[t] = "uploadToIPFS" /\ ret[t].kind = "throw")
         => (ret[t].val = ErrUpload /\ ~hist[t].addedBytes)
    /\ (op[t] = "getFromIPFS" /\ ret[t].kind = "throw")
         => ret[t].val = ErrRetrieve(args[t].cid)
    /\ (op[t] = "pinCID" /\ ret[t].kind = "throw")
         => (ret[t].val \in {ErrInit, ErrNoHelia} /\ hist[t].started = {})

C10_Witness ==
  \E t \in Tasks :
    /\ op[t] = "checkPinningStatus" /\ pc[t] = "done"
    /\ args[t].cid = BadCid
    /\ ret[t] = Throw(ErrParse)

\* C11 as stated: when the Pinata credential is not configured, the snapshot
\* checkPinningStatus returns has no entry for pinata (absent, not false).
C11_UnconfiguredIsAbsent ==
  \A t \in Tasks :
    (op[t] = "checkPinningStatus" /\ pc[t] = "done" /\ ret[t].kind = "value" /\ ~jwt)
      => "pinata" \notin DOMAIN ret[t].val

\* C11: the snapshot checkPinningStatus returns always has the three fields
\* pinata, localNode and heliaLocal; without a Pinata credential no Pinata
\* query is made and pinata is present with the value false, and with the
\* companion node unreachable localNode is present with the value false.
C11_UnconfiguredIsFalse ==
  \A t \in Tasks :
    (op[t] = "checkPinningStatus" /\ pc[t] = "done" /\ ret[t].kind = "value")
      => /\ DOMAIN ret[t].val = SnapshotFields
         /\ ~jwt => (hist[t].checks.pinata = "none" /\ ret[t].val.pinata = "false")
         /\ hist[t].checks.localNode = "throw" => ret[t].val.localNode = "false"

C11_Witness ==
  \E t \in Tasks :
    /\ op[t] = "checkPinningStatus" /\ pc[t] = "done" /\ ~jwt
    /\ hist[t].checks.localNode = "throw"
    /\ hist[t].checks.heliaLocal = "true"
    /\ ret[t] = Value([pinata |-> "false", localNode |-> "false", heliaLocal |-> "true"])

\* the positions of a caller at which a call to the Pinata provider is
\* outstanding or about to be made
PinataCallSteps ==
  {"pinata_submit", "pinata_poll1", "pinata_poll2", "pinata_upload",
   "list_all", "list_searching", "list_pending", "unpin_delete"}

\* C17: when the Pinata credential is missing, pinToPinata, unpinFromPinata
\* and listPinataPins report the missing credential as their failure without
\* any provider call: no submission, no upload, no status query (the polling
\* loop is never entered), no list query, no DELETE request, and no retry.
C17_NoCredentialNoProviderCall ==
  ~jwt =>
    \A t \in Tasks :
      /\ pc[t] \notin PinataCallSteps
      /\ hist[t].queries = 0 /\ hist[t].confirming = 0
      /\ hist[t].submit = NoAnswer /\ hist[t].upload = NoAnswer
      /\ hist[t].deletes = {}
      /\ pc[t] = "pinata_ret" => inner[t] = Result(FALSE, "pinata", ErrJwt)
      /\ Len(results[t]) >= 1 => results[t][1] = Result(FALSE, "pinata", ErrJwt)
      /\ (pc[t] = "done" /\ op[t] = "listPinataPins")
           => ret[t] = Value(ListFailed(ErrJwt))
      /\ (pc[t] = "done" /\ op[t] = "unpinFromPinata")
           => ret[t] = Value(Result(FALSE, "pinata", ErrJwt))
      /\ (pc[t] = "done" /\ op[t] = "pinToPinata")
           => ret[t] = Value(Result(FALSE, "pinata", ErrJwt))

C17_Witness ==
  /\ ~jwt
  /\ \E t \in Tasks :
       /\ pc[t] = "done"
       /\ \/ op[t] = "pinToPinata" /\ ret[t] = Value(Result(FALSE, "pinata", ErrJwt))
          \/ op[t] = "listPinataPins" /\ ret[t] = Value(ListFailed(ErrJwt))
          \/ op[t] = "unpinFromPinata" /\ ret[t] = Value(Result(FALSE, "pinata", ErrJwt))

\* the re-upload of the content resolved with an identifier other than the
\* requested one
UploadMismatch(t) ==
  /\ hist[t].upload.type = "ok"
  /\ hist[t].upload.message # args[t].cid

\* C18: when the re-upload of the content yields an identifier different
\* from the requested one, pinToPinata returns success:false with the
\* different-identifier error at once: no second upload and no status query
\* follows the upload (the second polling window is not entered), and within
\* pinToAllServices the local-node and helia-local attempts are still made.
C18_MismatchFailsAtOnce ==
  \A t \in Tasks :
    UploadMismatch(t) =>
      /\ pc[t] \notin {"pinata_upload", "pinata_poll1", "pinata_poll2", "pinata_submit"}
      /\ hist[t].queries = DefaultAttempts
      /\ "pinata" \in hist[t].finished
      /\ pc[t] = "pinata_ret"
           => inner[t] = Result(FALSE, "pinata", ErrDifferentCid(hist[t].upload.message))
      /\ Len(results[t]) >= 1
           => results[t][1] = Result(FALSE, "pinata", ErrDifferentCid(hist[t].upload.message))
      /\ PinAllOver(t)
           => /\ hist[t].started = {"pinata", "local-node", "helia-local"}
              /\ Len(results[t]) = 3
              /\ results[t][2].provider = "local-node"
              /\ results[t][3].provider = "helia-local"

C18_Witness ==
  \E t \in Tasks :
    /\ UploadMismatch(t)
    /\ PinAllOver(t)
    /\ ~results[t][1].success
    /\ results[t][2].success
    /\ results[t][3].success

\* the number of status queries one pinToPinata call may issue
QueryBudget(t) ==
  IF args[t].content = NoContent
    THEN DefaultAttempts
    ELSE DefaultAttempts + UploadAttempts

\* the bounds of C15 on the polling of one call
C15_Bounds ==
  \A t \in Tasks :
    /\ hist[t].queries <= QueryBudget(t)
    /\ pc[t] = "pinata_poll1" => (i[t] < DefaultAttempts /\ hist[t].queries = i[t] + 1)
    /\ pc[t] = "pinata_poll2"
         => (i[t] < UploadAttempts /\ hist[t].queries = DefaultAttempts + i[t] + 1)
    /\ (pc[t] = "pinata_ret" /\ hist[t].queries >= 1 /\ hist[t].allThrew)
         => inner[t] \in {Result(FALSE, "pinata", ErrNotConfirmed)}
                           \cup {Result(FALSE, "pinata", ErrorMessage(e)) : e \in Thrown}
                           \cup {Result(FALSE, "pinata", ErrDifferentCid(c)) : c \in CidStrings}
    /\ (pc[t] = "done" /\ op[t] = "pinToPinata") => ret[t].kind = "value"

\* C15: a polling window of waitForPinataPin issues at most `attempts`
\* queries and ends with false, not an exception, also when every query
\* throws; one pinToPinata call issues at most 5 status queries without
\* content and at most 5 + 6 = 11 with content, and it always returns.
C15_BoundedPollingAlwaysReturns ==
  /\ []C15_Bounds
  /\ \A t \in Tasks : (pc[t] = "pinata") ~> (pc[t] = "pinata_ret")

C15_Witness ==
  \E t \in Tasks :
    /\ pc[t] = "pinata_ret"
    /\ args[t].content # NoContent
    /\ hist[t].queries = DefaultAttempts + UploadAttempts
    /\ hist[t].allThrew
    /\ inner[t] = Result(FALSE, "pinata", ErrNotConfirmed)

\* C14: unpinFromPinata is idempotent: when the provider answers the DELETE
\* request with not-found, the call returns success:true (so the second of
\* two consecutive unpins of one identifier succeeds like the first).
C14_UnpinNotFoundIsSuccess ==
  \A t \in Tasks :
    (op[t] = "unpinFromPinata" /\ pc[t] = "done" /\ hist[t].unpin = "not-found")
      => (ret[t].kind = "value" /\ ret[t].val.success)

\* the rejection of a network call whose host cannot be reached: fetch
\* rejects with a TypeError that carries the runtime's message
Unreachable(r) == r = NetTypeError

C20_SubmissionThenConfirmation ==
  \A t \in Tasks :
    /\ ((pc[t] = "pinata_ret" /\ inner[t].success)
          \/ (Len(results[t]) >= 1 /\ results[t][1].success))
         => (hist[t].submitOk /\ hist[t].confirming >= 1)
    /\ ((pc[t] = "local_ret" /\ inner[t].success)
          \/ (Len(results[t]) >= 2 /\ results[t][2].success))
         => hist[t].kuboCalls >= 2

\* C19: pinning an identifier that the local node already has pinned is a
\* no-op success: pinToHeliaLocal returns success:true with no error, and
\* the identifier is still pinned on the node afterwards.
C19_RepinIsSuccess ==
  \A t \in Tasks :
    (hist[t].repin /\ "helia-local" \in hist[t].finished)
      => /\ pc[t] = "helia_ret" => inner[t] = Result(TRUE, "helia-local", NoError)
         /\ Len(results[t]) >= 3 => results[t][3] = Result(TRUE, "helia-local", NoError)
         /\ args[t].cid \in nodePins[args[t].helia]

\* the identifiers of the pin list a finished listPinataPins call returned
ListedCids(t) == {ret[t].val.pins[k].cid : k \in 1..Len(ret[t].val.pins)}

ListOver(t) ==
  /\ op[t] = "listPinataPins" /\ pc[t] = "done"
  /\ ret[t].kind = "value" /\ ret[t].val.success

\* C12: no identifier appears twice in the pin list listPinataPins returns,
\* whatever rows the unfiltered, searching and pending queries returned
\* (overlapping responses, repeated rows within one response).
C12_NoIdentifierTwice ==
  \A t \in Tasks :
    ListOver(t) =>
      \A j, k \in 1..Len(ret[t].val.pins) :
        ret[t].val.pins[j].cid = ret[t].val.pins[k].cid => j = k

\* C13: the identifiers in the result of an unfiltered listPinataPins call
\* are exactly the identifiers, read from whichever of ipfs_pin_hash, hash
\* and cid carries them, of all rows the three queries returned.
C13_ResultIsUnionOfQueries ==
  \A t \in Tasks :
    (ListOver(t) /\ args[t].status = Undefined)
      => ListedCids(t) = hist[t].listed

\* the part of C29 about single steps: a status query that ends without any
\* query of the call having resolved (it threw) leaves the call in its loop
\* with one attempt consumed and the next query issued, or, on the last
\* attempt of the window, lets the window end unconfirmed
C29_ThrowConsumesOneAttempt ==
  \A t \in Tasks :
    (/\ pc[t] \in {"pinata_poll1", "pinata_poll2"}
     /\ hist[t].allThrew /\ hist'[t].allThrew
     /\ op'[t] = op[t]
     /\ <<pc[t], i[t], hist[t]>> # <<pc'[t], i'[t], hist'[t]>>)
      => LET attempts == IF pc[t] = "pinata_poll1" THEN DefaultAttempts ELSE UploadAttempts
         IN  \/ /\ i[t] + 1 < attempts
                /\ i'[t] = i[t] + 1 /\ pc'[t] = pc[t]
                /\ hist'[t].queries = hist[t].queries + 1
             \/ /\ i[t] + 1 = attempts
                /\ hist'[t].queries = hist[t].queries
                /\ \/ pc'[t] = "pinata_upload" /\ pc[t] = "pinata_poll1"
                   \/ /\ pc'[t] = "pinata_ret"
                      /\ inner'[t] = Result(FALSE, "pinata", ErrNotConfirmed)

\* C29: in pinToPinata a network error is retried only inside the
\* confirmation loop: when the by-reference submission throws, no status
\* query is issued and the result is success:false carrying that error; a
\* status query that throws is swallowed, consumes one attempt and is
\* followed by the next attempt.
C29_RetryOnlyInsideLoop ==
  /\ [](\A t \in Tasks :
          hist[t].submit.type \notin {"none", "ok"}
            => /\ hist[t].queries = 0
               /\ pc[t] \notin {"pinata_poll1", "pinata_poll2", "pinata_upload"}
               /\ pc[t] = "pinata_ret"
                    => inner[t] = Result(FALSE, "pinata", ErrorMessage(hist[t].submit))
               /\ Len(results[t]) >= 1
                    => results[t][1] = Result(FALSE, "pinata", ErrorMessage(hist[t].submit)))
  /\ [][C29_ThrowConsumesOneAttempt]_vars

C29_Witness ==
  \E t \in Tasks :
    /\ pc[t] = "pinata_poll1"
    /\ hist[t].allThrew
    /\ i[t] = 2 /\ hist[t].queries = 3

\* the Pinata result of caller t's current call, once there is one
PinataResultIs(t, P(_)) ==
  /\ pc[t] = "pinata_ret" => P(inner[t])
  /\ Len(results[t]) >= 1 => P(results[t][1])

\* C30: pinToPinata attempts the byte re-upload only when content was
\* supplied and the first confirmation window of 5 attempts was exhausted
\* without confirmation; after a re-upload it reports success only if the
\* identifier the provider returned equals the requested one and a query of
\* the second window of 6 attempts confirmed it, and failure otherwise.
C30_UploadOnlyAfterFirstWindow ==
  \A t \in Tasks :
    (pc[t] = "pinata_upload" \/ hist[t].upload # NoAnswer) =>
      LET Succeeded(r) == r.success
          Failed(r) == ~r.success /\ r.error # NoError
          matched == hist[t].upload.type = "ok" /\ hist[t].upload.message = args[t].cid
      IN  /\ args[t].content # NoContent
          /\ hist[t].submitOk
          /\ hist[t].queries >= DefaultAttempts
          /\ pc[t] = "pinata_upload"
               => (hist[t].queries = DefaultAttempts /\ hist[t].upload = NoAnswer)
          /\ pc[t] = "pinata_poll2" => matched
          /\ IF /\ matched
                /\ hist[t].queries > DefaultAttempts
                /\ hist[t].queries <= DefaultAttempts + UploadAttempts
                /\ hist[t].confirming >= 1
               THEN TRUE
               ELSE PinataResultIs(t, Failed)
          /\ "pinata" \in hist[t].finished
               => (PinataResultIs(t, Succeeded) \/ PinataResultIs(t, Failed))

C30_Witness ==
  \E t \in Tasks :
    /\ pc[t] = "pinata_ret"
    /\ inner[t] = Result(TRUE, "pinata", NoError)
    /\ hist[t].upload = Fulfilled(args[t].cid)
    /\ hist[t].queries = DefaultAttempts + UploadAttempts

\* the operations that may delete at the provider
UnpinOps == {"unpinFromPinata", "unpinAllPendingFromPinata"}

\* C23: pin records persist until an explicit unpin: a DELETE request is
\* issued, and a provider record removed, only by a caller inside
\* unpinFromPinata or unpinAllPendingFromPinata; no step of pinToPinata,
\* pinToAllServices, checkPinningStatus, listPinataPins or the search does
\* either, also after a failed, mismatched or unconfirmed pin attempt.
C23_OnlyUnpinDeletes ==
  /\ [](\A t \in Tasks :
          (hist[t].deletes # {} \/ pc[t] = "unpin_delete") => op[t] \in UnpinOps)
  /\ [][\A c \in ValidCids :
          rows'[c] # rows[c]
            => \E t \in Tasks :
                 /\ op[t] \in UnpinOps /\ pc[t] = "unpin_delete" /\ args[t].cid = c
                 /\ [cid |-> c, atProvider |-> rows[c]] \in hist[t].deletes
                 /\ rows'[c] = "none"]_vars

C23_Witness ==
  \E t \in Tasks :
    /\ PinAllOver(t)
    /\ calls[t] = MaxCalls
    /\ results[t][1] = Result(FALSE, "pinata", ErrNotConfirmed)
    /\ hist[t].deletes = {}
    /\ rows["cidA"] = "pending" /\ rows["cidB"] = "pinned"

\* C21: when the provider's statuses do not change during the call,
\* unpinAllPendingFromPinata issues deletes only for records listed as
\* pending or searching, and every record with another status (pinned) is
\* still present and unchanged after each of its steps.
C21_OnlyQueuedRecordsDeleted ==
  /\ [](\A t \in Tasks :
          op[t] = "unpinAllPendingFromPinata"
            => \A d \in hist[t].deletes : d.atProvider \in PendingLike)
  /\ [][\A t \in Tasks :
          (op[t] = "unpinAllPendingFromPinata" /\ op'[t] = op[t])
            => \A c \in ValidCids :
                 rows[c] \notin PendingLike => rows'[c] = rows[c]]_vars

C21_Witness ==
  \E t \in Tasks :
    /\ op[t] = "unpinAllPendingFromPinata" /\ pc[t] = "done"
    /\ calls[t] = 1
    /\ ret[t] = Value([success |-> TRUE, unpinned |-> 1, errors |-> <<>>])
    /\ hist[t].deletes = {[cid |-> "cidA", atProvider |-> "searching"]}
    /\ rows["cidA"] = "none" /\ rows["cidB"] = "pinned"

\* the pin call of C22: the submission succeeded, a status query of the first
\* window (at most the 5th) named the identifier, and helia.pins.add resolved
ConfirmedInFirstWindow(t) ==
  /\ PinAllOver(t)
  /\ hist[t].submitOk
  /\ hist[t].confirming >= 1 /\ hist[t].queries <= DefaultAttempts
  /\ hist[t].upload = NoAnswer
  /\ hist[t].add.type = "ok"

\* the check of C22: the identifier's earlier pin call reported Pinata
\* success, the local node holds the pin, the provider's listing still names
\* the identifier (nothing was unpinned) and isPinned resolves
CheckAfterPin(t) ==
  /\ op[t] = "checkPinningStatus" /\ pc[t] = "done"
  /\ memo.provider = 1 /\ memo.cid = args[t].cid /\ memo.result.success
  /\ args[t].cid \in nodePins[args[t].helia]
  /\ hist[t].checks.pinata = "true"
  /\ hist[t].checks.heliaLocal # "throw"

C24_RoundTrip ==
  \A t \in Tasks :
    (/\ op[t] = "getFromIPFS" /\ pc[t] = "done" /\ ret[t].kind = "value"
     /\ args[t].cid \in nodeBlocks[fs[t]])
      => \A d \in Data : CidOf(d) = args[t].cid => ret[t].val = d

\* C25: getFromIPFS for a block that is absent locally and that no peer
\* provides ends with a failure after a bounded time: the call is never left
\* waiting for the block with nothing that will end the wait.
C25_GetEndsWhenBlockUnreachable ==
  \A t \in Tasks :
    (/\ op[t] = "getFromIPFS"
     /\ fs[t] \in DOMAIN nodeBlocks
     /\ args[t].cid \notin nodeBlocks[fs[t]])
      => pc[t] # "get_wait"

\* searchCIDsInHelia called by t has returned its results
SearchOver(t) ==
  /\ pc[t] = "done"
  /\ op[t] = "searchCIDsInHelia"
  /\ ret[t].kind = "value"

\* some IndexedDB record has the identifier in its key or in its value
HeldInIdb(c) ==
  \E k \in 1..Len(idb.records) :
    \/ Includes(idb.records[k].key, IdText(c))
    \/ Includes(idb.records[k].value, IdText(c))

\* C26: searchCIDsInHelia, for an identifier that is in the block store of
\* the node but not pinned and in no IndexedDB key or value, returns
\* found:true with exactly one location, and that location is of the
\* block-store tier (the read of the block store having worked).
C26_BlockOnlyHasOneLocation ==
  \A t \in Tasks :
    SearchOver(t) =>
      \A k \in 1..Len(args[t].cids) :
        LET c == args[t].cids[k]
            h == args[t].helia
        IN  ( /\ c \in nodeBlocks[h]
              /\ c \notin nodePins[h]
              /\ ~HeldInIdb(c)
              /\ <<"blockstore", k>> \notin hist[t].failed )
              => /\ ret[t].val[k].found
                 /\ Len(ret[t].val[k].locations) = 1
                 /\ ret[t].val[k].locations[1].type = "blockstore"

\* the location was recorded for identifier c from a containment test that
\* an equality test would not have passed
FromContainment(loc, c) ==
  /\ loc.type = "indexeddb"
  /\ ~(loc.details = "Found in key" /\ loc.key = IdText(c))

\* the location was recorded for identifier c where the key equals it
FromEquality(loc, c) ==
  /\ loc.type = "indexeddb"
  /\ loc.details = "Found in key"
  /\ loc.key = IdText(c)

\* C27: every location the search records from a substring-containment
\* match rather than from exact equality is labelled as heuristic: what
\* labels it (its type and the kind of its details) differs from the label
\* of every location recorded from an exact match.
C27_ContainmentHitsLabelled ==
  \A t \in Tasks :
    SearchOver(t) =>
      \A k1, k2 \in 1..Len(args[t].cids) :
        \A j1 \in 1..Len(ret[t].val[k1].locations) :
          \A j2 \in 1..Len(ret[t].val[k2].locations) :
            LET s == ret[t].val[k1].locations[j1]
                x == ret[t].val[k2].locations[j2]
            IN  (FromContainment(s, args[t].cids[k1]) /\ FromEquality(x, args[t].cids[k2]))
                  => <<s.type, s.details>> # <<x.type, x.details>>

\* the positions of a caller inside searchCIDsInHelia
SearchSteps == {"search_pins", "search_blocks", "search_idb", "done"}

\* the k-th result of t's search is what the local stores hold: a pin-store
\* location exactly when the registry of the node has the identifier, a
\* blockstore location exactly when its block store has it (each read
\* having worked), and one indexeddb location per key and per value, in the
\* databases that were opened, that matches it
LocalResult(t, k) ==
  LET c == args[t].cids[k]
      h == args[t].helia
      locs == ret[t].val[k].locations
      Has(tier) == \E j \in 1..Len(locs) : locs[j].type = tier
      matches ==
        {m \in (1..Len(idb.records)) \X {"key", "value"} :
           LET r == idb.records[m[1]]
           IN  /\ r.database \in hist[t].opened
               /\ IF m[2] = "key"
                    THEN Includes(r.key, IdText(c)) \/ Includes(IdText(c), r.key)
                    ELSE Includes(r.value, IdText(c))}
  IN  /\ ret[t].val[k].cid = c
      /\ ret[t].val[k].found = (Len(locs) > 0)
      /\ \A j \in 1..Len(locs) : locs[j].type \in {"pin-store", "blockstore", "indexeddb"}
      /\ Has("pin-store")
           <=> (c \in ValidCids /\ c \in nodePins[h] /\ <<"pin-store", k>> \notin hist[t].failed)
      /\ Has("blockstore")
           <=> (c \in ValidCids /\ c \in nodeBlocks[h] /\ <<"blockstore", k>> \notin hist[t].failed)
      /\ Cardinality({j \in 1..Len(locs) : locs[j].type = "indexeddb"})
           = Cardinality(matches)

AutoPinOps == {"uploadToIPFS", "pinCID"}

QueryIds(t, k) == hist[t].pinLists[k].ids
QueryHashes(t, k) == hist[t].pinLists[k].hashes

\* C32: when the unfiltered query of listPinataPins fails (non-OK response
\* or thrown error) the call returns success:false with an empty pin list
\* and an error, and neither status-filtered query is issued; when it
\* succeeds, both filtered queries are issued, a failure of either is
\* tolerated, and the call returns success:true with a list drawn from the
\* records of the queries that succeeded only: without a status filter it
\* holds every record of the unfiltered query and every identifier a
\* succeeded filtered query returned as ipfs_pin_hash.
C32_FilteredFailuresTolerated ==
  \A t \in Tasks :
    (op[t] = "listPinataPins" /\ hist[t].pinLists # <<>>) =>
      LET qs == hist[t].pinLists
          over == pc[t] = "done"
      IN  IF ~qs[1].ok
            THEN /\ Len(qs) = 1
                 /\ over
                 /\ ret[t].kind = "value"
                 /\ ~ret[t].val.success
                 /\ ret[t].val.pins = <<>>
                 /\ ret[t].val.error # Undefined
            ELSE /\ pc[t] = "list_searching" <=> Len(qs) = 1
                 /\ pc[t] = "list_pending" <=> Len(qs) = 2
                 /\ over <=> Len(qs) = 3
                 /\ over =>
                      /\ ret[t].kind = "value"
                      /\ ret[t].val.success
                      /\ ret[t].val.error = Undefined
                      /\ ListedCids(t) \subseteq
                            UNION {QueryIds(t, k) : k \in {n \in 1..3 : qs[n].ok}}
                      /\ args[t].status = Undefined =>
                           /\ QueryIds(t, 1) \subseteq ListedCids(t)
                           /\ \A k \in 2..3 : QueryHashes(t, k) \subseteq ListedCids(t)

\* a listing whose searching query failed and whose pending query brought a
\* record the unfiltered query did not have
C32_Witness ==
  \E t \in Tasks :
    /\ ListOver(t)
    /\ args[t].status = Undefined
    /\ ~hist[t].pinLists[2].ok
    /\ hist[t].pinLists[3].ok
    /\ QueryHashes(t, 3) \ QueryIds(t, 1) # {}
    /\ QueryIds(t, 1) # {}

\* unpinAllPendingFromPinata called by t has returned
UnpinAllOver(t) ==
  /\ op[t] = "unpinAllPendingFromPinata"
  /\ pc[t] = "done"
  /\ ret[t].kind = "value"

\* C33: when unpinAllPendingFromPinata completes after a listing that
\* succeeded, the unpinned count plus the number of entries in errors equals
\* the number of listed records whose status is pending or searching, and
\* each of those records was sent one delete request and no other record
\* any; when the listing fails, no delete is issued, unpinned is 0 and the
\* result is success:false with the listing's error.
C33_CountsAddUp ==
  \A t \in Tasks :
    UnpinAllOver(t) =>
      LET listing == NormalisePins(allPins[t])
          queued == {k \in 1..Len(listing) : listing[k].status \in {"pending", "searching"}}
          r == ret[t].val
      IN  IF hist[t].pinLists # <<>> /\ hist[t].pinLists[1].ok
            THEN /\ r.success
                 /\ r.unpinned + Len(r.errors) = Cardinality(queued)
                 /\ Cardinality(hist[t].deletes) = Cardinality(queued)
                 /\ {d.cid : d \in hist[t].deletes} = {listing[k].cid : k \in queued}
            ELSE /\ ~r.success
                 /\ r.unpinned = 0
                 /\ Len(r.errors) = 1
                 /\ hist[t].deletes = {}

\* a clean-up of two queued records of which one delete failed
C33_Witness ==
  \E t \in Tasks :
    /\ UnpinAllOver(t)
    /\ ret[t].val.success
    /\ ret[t].val.unpinned = 1
    /\ Len(ret[t].val.errors) = 1
    /\ Cardinality(hist[t].deletes) = 2

\* C34: searchCIDsInHelia returns exactly one result per input identifier,
\* in input order, and in every result found is true if and only if the
\* result's list of locations is not empty.
C34_OneResultPerIdentifier ==
  \A t \in Tasks :
    (op[t] = "searchCIDsInHelia" /\ pc[t] = "done") =>
      /\ ret[t].kind = "value"
      /\ Len(ret[t].val) = Len(args[t].cids)
      /\ \A k \in 1..Len(args[t].cids) :
           /\ ret[t].val[k].cid = args[t].cids[k]
           /\ ret[t].val[k].found <=> ret[t].val[k].locations # <<>>

\* a search for two identifiers of which the first comes back found in the
\* pin registry and the second, unparseable one, not found
C34_Witness ==
  \E t \in Tasks :
    /\ SearchOver(t)
    /\ args[t].cids = <<"cidA", BadCid>>
    /\ ret[t].val[1].found
    /\ ret[t].val[1].locations[1].type = "pin-store"
    /\ ~ret[t].val[2].found
    /\ ret[t].val[2].locations = <<>>

\* C35: in the IndexedDB scan a key or a serialized value is recorded as a
\* match for an identifier only if it equals the identifier or contains it:
\* every indexeddb location of a result names a key that contains the
\* result's identifier or, for a value match, the key of a record whose
\* value contains it.
C35_OnlyContainingRecordsMatch ==
  \A t \in Tasks :
    SearchOver(t) =>
      \A k \in 1..Len(args[t].cids) :
        \A j \in 1..Len(ret[t].val[k].locations) :
          LET loc == ret[t].val[k].locations[j]
              c == IdText(args[t].cids[k])
          IN  loc.type = "indexeddb" =>
                IF loc.details = "Found in key"
                  THEN Includes(loc.key, c)
                  ELSE \E n \in 1..Len(idb.records) :
                         /\ idb.records[n].database = loc.database
                         /\ idb.records[n].key = loc.key
                         /\ Includes(idb.records[n].value, c)

\* C36: the diagnostic search is read-only for local storage: when
\* searchCIDsInHelia has returned, the IndexedDB databases of the origin and
\* their records, the pin registry and the block store of the node are what
\* they were when the search began; a well-known database name that did not
\* exist has not been created by probing it.
C36_SearchLeavesStorageAlone ==
  \A t \in Tasks :
    SearchOver(t) =>
      /\ idb = hist[t].before.idb
      /\ nodePins[args[t].helia] = hist[t].before.pins
      /\ nodeBlocks[args[t].helia] = hist[t].before.blocks

\* the k-th result of t's search has a location of the tier
HasTier(t, k, tier) ==
  \E j \in 1..Len(ret[t].val[k].locations) : ret[t].val[k].locations[j].type = tier

C38_NoStoppedNodeHandedOut ==
  \A t \in Tasks : hist[t].handed = {}

\* C39: an uploadToIPFS with autoPin true whose local add succeeded has
\* invoked pinToAllServices by the time it returns the identifier (the
\* three provider results are there), also when stopHelia ran beside the
\* upload: replication is never skipped.
C39_AutoPinAlwaysReplicates ==
  \A t \in Tasks :
    ( /\ op[t] = "uploadToIPFS"
      /\ pc[t] = "done"
      /\ args[t].autoPin
      /\ hist[t].addedBytes )
      => /\ ret[t] = Value(args[t].cid)
         /\ Len(results[t]) = 3

====
